---- MODULE Spec2Model ----
(***************************************************************************)
(* Workspace-ai python backend: the tiered content classifier              *)
(* (ai_modules/analyzers.py), the OpenCV focus monitor                     *)
(* (ai_modules/focus_score_monitor.py) and the endpoints of app.py that    *)
(* serve them.                                                             *)
(*                                                                         *)
(* Texts are TLA+ strings; keyword matching is Python's `kw in text`,      *)
(* i.e. substring containment, and the regular expressions of the          *)
(* detectors are matched with re.search semantics.                         *)
(***************************************************************************)
EXTENDS Integers, Sequences, FiniteSets, TLC

VARIABLES
  session,            \* which client is being served: "desktop", "camera" or
                      \* "extension"
  window,             \* desktop: the title and url of the observed window
  MODEL,              \* analyzers._MODEL, the cached external classifier
  use_dnn,            \* OpenCVFocusMonitor.use_dnn
  dnn_only,           \* OpenCVFocusMonitor.dnn_only
  focus_history,      \* OpenCVFocusMonitor.focus_history
  baseline_face_size, \* OpenCVFocusMonitor.baseline_face_size
  frame_count,        \* OpenCVFocusMonitor.frame_count
  now,                \* time.time(), in seconds
  appended,           \* history variable: every record ever appended to focus_history
  isolated,           \* history variable: per session_id, the state a monitor of
                      \* its own would be in, having seen that session's frames only
  last_call,          \* the last call served: its operation, input and result
  previous,           \* the call before it, when it was the same call
  created,            \* how many OpenCVFocusMonitor objects were constructed
  threads,            \* per worker thread, where it is in analyze_focus_from_b64
                      \* and the locals it holds
  LAST_TAB_RESULT,    \* app.LAST_TAB_RESULT, the last tab analysis served
  LAST_EDU_URL        \* app.LAST_EDU_URL, the last educational URL remembered

vars == <<session, window, MODEL, use_dnn, dnn_only, focus_history,
          baseline_face_size, frame_count, now, appended, isolated, last_call,
          previous, created, threads, LAST_TAB_RESULT, LAST_EDU_URL>>

extension_vars == <<LAST_TAB_RESULT, LAST_EDU_URL>>

classifier_vars == <<window, MODEL>>

monitor_vars == <<use_dnn, dnn_only, focus_history, baseline_face_size,
                  frame_count, now, appended, isolated>>

\* Python's None
None == "None"

(***************************************************************************)
(* String helpers (Python str operations)                                  *)
(***************************************************************************)

\* s[i] as a one-character string (1-based)
CharAt(s, i) == SubSeq(s, i, i)

\* Python: k in t
Contains(k, t) ==
  \E i \in 1..(Len(t) - Len(k) + 1) : SubSeq(t, i, i + Len(k) - 1) = k

UpperCase == "ABCDEFGHIJKLMNOPQRSTUVWXYZ"
LowerCase == "abcdefghijklmnopqrstuvwxyz"

LowerChar(c) ==
  IF \E i \in 1..Len(UpperCase) : CharAt(UpperCase, i) = c
    THEN CharAt(LowerCase, CHOOSE i \in 1..Len(UpperCase) : CharAt(UpperCase, i) = c)
    ELSE c

RECURSIVE LowerFrom(_, _)
LowerFrom(s, i) ==
  IF i > Len(s) THEN "" ELSE LowerChar(CharAt(s, i)) \o LowerFrom(s, i + 1)

\* Python: s.lower()
Lower(s) == LowerFrom(s, 1)

IsSpace(c) == c \in {" ", "\n", "\t", "\r"}

\* Python: s.strip()
Strip(s) ==
  LET kept == {i \in 1..Len(s) : ~IsSpace(CharAt(s, i))}
      first == CHOOSE i \in kept : \A j \in kept : i <= j
      last == CHOOSE i \in kept : \A j \in kept : j <= i
  IN IF kept = {} THEN "" ELSE SubSeq(s, first, last)

IsDigit(c) == c \in {"0", "1", "2", "3", "4", "5", "6", "7", "8", "9"}

Min(a, b) == IF a < b THEN a ELSE b
Max(a, b) == IF a > b THEN a ELSE b

\* the elements of a sequence
Range(s) == {s[i] : i \in 1..Len(s)}

RECURSIVE SumSeq(_)
SumSeq(s) == IF s = <<>> THEN 0 ELSE Head(s) + SumSeq(Tail(s))

(***************************************************************************)
(* Regular expressions of the detectors.  Every pattern is either an       *)
(* alternation of literals, or  (L1|L2|..) .+ (R1|R2|..)  : a left         *)
(* alternative, a space, one or more characters other than newline, a      *)
(* space, a right alternative.  A left alternative may end in \d+ .        *)
(***************************************************************************)

\* positions of the last character of a match of left alternative l in t
LeftEnds(l, t) ==
  LET n == Len(l.lit)
      starts == {i \in 1..(Len(t) - n + 1) : SubSeq(t, i, i + n - 1) = l.lit}
  IN IF l.digits
       THEN {e \in 1..Len(t) : \E i \in starts :
                /\ e >= i + n
                /\ \A j \in (i + n)..e : IsDigit(CharAt(t, j))}
       ELSE {i + n - 1 : i \in starts}

\* positions of the first character of an occurrence of literal r in t
RightStarts(r, t) ==
  {j \in 1..(Len(t) - Len(r) + 1) : SubSeq(t, j, j + Len(r) - 1) = r}

\* re.search(pattern, t) is not None
re_search(p, t) ==
  IF p.right = <<>>
    THEN \E a \in Range(p.left) : LeftEnds(a, t) # {}
    ELSE \E a \in Range(p.left), r \in Range(p.right) :
           \E e \in LeftEnds(a, t), j \in RightStarts(r, t) :
              /\ j >= e + 4
              /\ CharAt(t, e + 1) = " "
              /\ CharAt(t, j - 1) = " "
              /\ \A m \in (e + 2)..(j - 2) : CharAt(t, m) # "\n"

Lit(s) == [lit |-> s, digits |-> FALSE]
LitDigits(s) == [lit |-> s, digits |-> TRUE]

(***************************************************************************)
(* Keyword and pattern tables of the three detectors                       *)
(***************************************************************************)

educational_keywords ==
  <<
    "mathematics", "math", "calculus", "algebra", "geometry", "trigonometry",
    "statistics", "probability", "discrete math", "linear algebra",
    "physics", "chemistry", "biology", "science", "engineering",
    "computer science", "programming", "coding", "software", "python",
    "javascript", "java", "c++", "react", "node.js", "html", "css",
    "machine learning", "artificial intelligence", "data science",
    "algorithms", "tutorial", "learn", "education", "educational", "study",
    "studying", "lecture", "course", "class", "lesson", "academic",
    "university", "college", "school", "instructor", "professor", "teacher",
    "khan academy", "coursera", "edx", "udemy", "mit", "stanford", "harvard",
    "opencourseware", "codecademy", "freecodecamp", "how to", "explanation",
    "guide", "introduction to", "basics of", "fundamentals", "concepts",
    "theory", "practice", "examples", "solved", "problem solving",
    "step by step", "demonstration", "walkthrough", "explained",
    "understanding", "calculus for engineering", "organic chemistry",
    "data structures", "web development", "machine learning course",
    "physics explained", "programming tutorial", "math help", "study guide",
    "3blue1brown", "crash course", "ted-ed", "khan academy",
    "mit opencourseware", "professor leonard", "organic chemistry tutor",
    "patrickjmt", "the coding train", "sentdex", "corey schafer",
    "integration", "derivative", "formula", "equation"
  >>

\* the keywords that weigh 2 instead of 1
educational_strong == {"tutorial", "learn", "education", "course", "lecture", "explained"}

educational_patterns ==
  << [name |-> "pattern_how to .+ (programmi...",
      left |-> <<Lit("how to")>>,
      right |-> <<"programming", "coding", "math", "science", "engineering">>],
     [name |-> "pattern_(tutorial|guide|cour...",
      left |-> <<Lit("tutorial"), Lit("guide"), Lit("course")>>,
      right |-> <<"programming", "coding", "development">>],
     [name |-> "pattern_(learn|learning) .+ ...",
      left |-> <<Lit("learn"), Lit("learning")>>,
      right |-> <<"python", "javascript", "math", "calculus", "physics">>],
     [name |-> "pattern_(introduction to|bas...",
      left |-> <<Lit("introduction to"), Lit("basics of")>>,
      right |-> <<"computer science", "programming", "mathematics">>],
     [name |-> "pattern_(solving|solved) .+ ...",
      left |-> <<Lit("solving"), Lit("solved")>>,
      right |-> <<"problems", "equations", "algorithms">>],
     [name |-> "pattern_(step by step|walkth...",
      left |-> <<Lit("step by step"), Lit("walkthrough")>>,
      right |-> <<"tutorial", "guide", "explanation">>] >>

high_distraction_keywords ==
  <<
    "funny", "memes", "viral", "comedy", "hilarious", "laugh", "lol",
    "prank", "pranks", "fail", "fails", "compilation", "reaction", "roast",
    "entertainment", "gossip", "drama", "scandal", "cringe", "music video",
    "song", "dance", "party", "club", "concert", "remix", "beat", "lyrics",
    "album", "top 10", "top 5", "best of", "worst of", "vs", "versus",
    "ranking", "countdown", "tier list", "gameplay", "gaming", "streamer",
    "let's play", "speedrun", "game review", "gaming news", "twitch",
    "stream highlight", "montage", "clips", "tiktok", "tiktoker",
    "influencer", "vlog", "daily vlog", "lifestyle", "day in my life",
    "grwm", "outfit", "shocking", "unbelievable", "amazing", "incredible",
    "insane", "mind blown", "you won't believe", "gone wrong", "gone wild"
  >>

\* the keywords that weigh 5, and those that weigh 3; the others weigh 2
high_strong == {"funny", "memes", "viral", "prank", "fail", "comedy", "hilarious"}
high_mid == {"music video", "gaming", "entertainment", "gossip"}

high_distraction_patterns ==
  << [name |-> "pattern_(funny|hilarious|comedy) ...",
      left |-> <<Lit("funny"), Lit("hilarious"), Lit("comedy")>>,
      right |-> <<"video", "compilation", "moments">>],
     [name |-> "pattern_(fail|epic fail) .+ (comp...",
      left |-> <<Lit("fail"), Lit("epic fail")>>,
      right |-> <<"compilation", "moments", "videos">>],
     [name |-> "pattern_(top \\d+|best) .+ (funny|...",
      left |-> <<LitDigits("top "), Lit("best")>>,
      right |-> <<"funny", "epic", "fails", "moments">>],
     [name |-> "pattern_(reaction to|reacting to)...",
      left |-> <<Lit("reaction to"), Lit("reacting to")>>,
      right |-> <<"video", "song", "movie">>],
     [name |-> "pattern_(prank|pranking) .+ (peop...",
      left |-> <<Lit("prank"), Lit("pranking")>>,
      right |-> <<"people", "friends", "family">>],
     [name |-> "pattern_(roasting|roast) .+ (peop...",
      left |-> <<Lit("roasting"), Lit("roast")>>,
      right |-> <<"people", "celebrities", "youtubers">>],
     [name |-> "pattern_(gone wrong|gone wild|gon...",
      left |-> <<Lit("gone wrong"), Lit("gone wild"), Lit("gone sexual")>>,
      right |-> <<>>],
     [name |-> "pattern_(you won't believe|shocki...",
      left |-> <<Lit("you won't believe"), Lit("shocking"), Lit("unbelievable")>>,
      right |-> <<>>] >>

medium_distraction_keywords ==
  <<
    "facebook", "instagram", "twitter", "snapchat", "linkedin",
    "social media", "social", "feed", "timeline", "posts", "stories",
    "tweet", "retweet", "hashtag", "follow", "followers", "shopping", "buy",
    "sale", "deal", "discount", "product review", "unboxing", "haul",
    "amazon", "flipkart", "myntra", "ebay", "price", "offers", "cart",
    "checkout", "breaking news", "celebrity news", "sports news",
    "latest news", "entertainment news", "gossip news", "politics",
    "election", "reddit", "meme", "chat", "messaging", "whatsapp", "telegram"
  >>

\* the names appended for the matched patterns
PatternNames(pats) == [i \in 1..Len(pats) |-> pats[i].name]

(***************************************************************************)
(* The three detectors                                                     *)
(***************************************************************************)

\* the score needed for the educational tier
education_threshold == 2

\* the score needed for the high-distraction tier
high_threshold == 3

detect_educational_content(text) ==
  IF text = ""
    THEN [is_educational |-> FALSE, detected_keywords |-> <<>>, education_score |-> 0]
    ELSE LET text_lower == Lower(text)
             hit(k) == Contains(k, text_lower)
             found(p) == re_search(p, text_lower)
             kws == SelectSeq(educational_keywords, hit)
             pats == SelectSeq(educational_patterns, found)
             weight(k) == IF k \in educational_strong THEN 2 ELSE 1
             score == SumSeq([i \in 1..Len(kws) |-> weight(kws[i])]) + 3 * Len(pats)
         IN [is_educational |-> score >= education_threshold,
             detected_keywords |-> kws \o PatternNames(pats),
             education_score |-> score]

detect_high_distraction_content(text) ==
  IF text = ""
    THEN [is_high_distraction |-> FALSE, detected_keywords |-> <<>>, distraction_score |-> 0]
    ELSE LET text_lower == Lower(text)
             hit(k) == Contains(k, text_lower)
             found(p) == re_search(p, text_lower)
             kws == SelectSeq(high_distraction_keywords, hit)
             pats == SelectSeq(high_distraction_patterns, found)
             weight(k) == IF k \in high_strong THEN 5
                          ELSE IF k \in high_mid THEN 3 ELSE 2
             score == SumSeq([i \in 1..Len(kws) |-> weight(kws[i])]) + 4 * Len(pats)
         IN [is_high_distraction |-> score >= high_threshold,
             detected_keywords |-> kws \o PatternNames(pats),
             distraction_score |-> score]

detect_medium_distraction_content(text) ==
  IF text = ""
    THEN [is_medium_distraction |-> FALSE, detected_keywords |-> <<>>]
    ELSE LET text_lower == Lower(text)
             hit(k) == Contains(k, text_lower)
             kws == SelectSeq(medium_distraction_keywords, hit)
         IN [is_medium_distraction |-> Len(kws) > 0, detected_keywords |-> kws]

(***************************************************************************)
(* analyze_distraction_from_window: the window path of the classifier      *)
(***************************************************************************)

\* all_text: the lower-cased title and url, joined and stripped
window_text(window_info) ==
  Strip(Lower(window_info.title) \o " " \o Lower(window_info.url))

\* what the detectors report for the window; the detectors are pure, so
\* running all of them gives the values the cascade reads when it gets there
window_signals(window_info) ==
  LET all_text == window_text(window_info)
  IN [educational |-> detect_educational_content(all_text),
      high |-> detect_high_distraction_content(all_text),
      medium |-> detect_medium_distraction_content(all_text),
      is_youtube |-> Contains("youtube", Lower(window_info.url))]

\* the result returned when the educational tier wins
window_educational(sig, active_time) ==
  [is_distraction |-> FALSE,
   distraction_score |-> 0,
   suggested_action |-> None,
   detected_indicators |-> sig.educational.detected_keywords,
   content_type |-> "educational",
   severity |-> "none",
   active_time_seconds |-> active_time,
   should_alert |-> FALSE,
   should_block |-> FALSE,
   should_warn |-> FALSE,
   should_close |-> FALSE]

\* window_high with a warning phase: nothing is closed in the first 30 seconds
window_high_progressive(sig, active_time) ==
  [is_distraction |-> TRUE,
   distraction_score |-> Min(95, 80 + sig.high.distraction_score),
   suggested_action |-> IF active_time > 30 THEN "force-close" ELSE "warning",
   detected_indicators |-> sig.high.detected_keywords,
   content_type |-> "high_distraction",
   severity |-> "critical",
   active_time_seconds |-> active_time,
   should_alert |-> TRUE,
   should_block |-> active_time > 30,
   should_warn |-> active_time <= 30,
   should_close |-> active_time > 30]

\* the result returned when the high-distraction tier wins
window_high(sig, active_time) ==
  [is_distraction |-> TRUE,
   distraction_score |-> Min(95, 80 + sig.high.distraction_score),
   suggested_action |-> "force-close",
   detected_indicators |-> sig.high.detected_keywords,
   content_type |-> "high_distraction",
   severity |-> "critical",
   active_time_seconds |-> active_time,
   should_alert |-> TRUE,
   should_block |-> TRUE,
   should_warn |-> FALSE,
   should_close |-> TRUE]

\* medium_base without the YouTube branch
medium_base_uniform(sig) ==
  IF sig.medium.is_medium_distraction
    THEN [is_distraction |-> TRUE,
          distraction_score |-> Min(75, Len(sig.medium.detected_keywords) * 15),
          severity |-> "medium"]
    ELSE [is_distraction |-> FALSE, distraction_score |-> 5, severity |-> "none"]

\* is_distraction, distraction_score and severity as set before the
\* progressive-blocking step (YouTube and non-YouTube branches)
medium_base(sig) ==
  IF sig.is_youtube /\ ~sig.educational.is_educational /\ ~sig.high.is_high_distraction
    THEN IF sig.medium.detected_keywords # <<>>
           THEN [is_distraction |-> TRUE, distraction_score |-> 60, severity |-> "medium"]
           ELSE [is_distraction |-> FALSE, distraction_score |-> 20, severity |-> "low"]
    ELSE IF sig.medium.is_medium_distraction
           THEN [is_distraction |-> TRUE,
                 distraction_score |-> Min(75, Len(sig.medium.detected_keywords) * 15),
                 severity |-> "medium"]
           ELSE [is_distraction |-> FALSE, distraction_score |-> 5, severity |-> "none"]

\* medium_escalation with the action names one step stronger
medium_escalation_stronger(active_time) ==
  IF active_time > 120
    THEN [should_block |-> TRUE, should_close |-> TRUE,
          severity |-> "high", suggested_action |-> "force-close"]
    ELSE IF active_time > 30
      THEN [should_block |-> TRUE, should_close |-> FALSE,
            severity |-> "medium", suggested_action |-> "close-tab"]
      ELSE [should_block |-> FALSE, should_close |-> FALSE,
            severity |-> "low", suggested_action |-> "warning"]

\* medium_escalation with the thresholds compared by >=
medium_escalation_inclusive(active_time) ==
  IF active_time >= 120
    THEN [should_block |-> TRUE, should_close |-> TRUE,
          severity |-> "high", suggested_action |-> "close-tab"]
    ELSE IF active_time >= 30
      THEN [should_block |-> TRUE, should_close |-> FALSE,
            severity |-> "medium", suggested_action |-> "warning"]
      ELSE [should_block |-> FALSE, should_close |-> FALSE,
            severity |-> "low", suggested_action |-> "monitor"]

\* progressive blocking of a medium distraction by active time
medium_escalation(active_time) ==
  IF active_time > 120
    THEN [should_block |-> TRUE, should_close |-> TRUE,
          severity |-> "high", suggested_action |-> "close-tab"]
    ELSE IF active_time > 30
      THEN [should_block |-> TRUE, should_close |-> FALSE,
            severity |-> "medium", suggested_action |-> "warning"]
      ELSE [should_block |-> FALSE, should_close |-> FALSE,
            severity |-> "low", suggested_action |-> "monitor"]

\* medium_should_alert with a grace period of ten seconds
medium_should_alert_after_10(is_distraction, active_time) ==
  is_distraction /\ active_time > 10

\* should_alert of a medium-distraction result
medium_should_alert(is_distraction, active_time) == is_distraction

\* window_medium that keeps warning while it blocks
window_medium_always_warns(sig, active_time) ==
  LET base == medium_base(sig)
      esc == medium_escalation(active_time)
  IN [is_distraction |-> base.is_distraction,
      distraction_score |-> base.distraction_score,
      suggested_action |-> esc.suggested_action,
      detected_indicators |-> sig.medium.detected_keywords,
      content_type |-> "medium_distraction",
      severity |-> esc.severity,
      active_time_seconds |-> active_time,
      should_alert |-> medium_should_alert(base.is_distraction, active_time),
      should_block |-> esc.should_block,
      should_warn |-> base.is_distraction,
      should_close |-> esc.should_close]

\* the result returned when the medium-distraction tier wins
window_medium(sig, active_time) ==
  LET base == medium_base(sig)
      esc == medium_escalation(active_time)
  IN [is_distraction |-> base.is_distraction,
      distraction_score |-> base.distraction_score,
      suggested_action |-> esc.suggested_action,
      detected_indicators |-> sig.medium.detected_keywords,
      content_type |-> "medium_distraction",
      severity |-> esc.severity,
      active_time_seconds |-> active_time,
      should_alert |-> medium_should_alert(base.is_distraction, active_time),
      should_block |-> esc.should_block,
      should_warn |-> ~esc.should_block /\ base.is_distraction,
      should_close |-> esc.should_close]

\* the result returned when no tier wins
window_neutral(sig, active_time) ==
  [is_distraction |-> FALSE,
   distraction_score |-> 5,
   suggested_action |-> None,
   detected_indicators |-> <<>>,
   content_type |-> "neutral",
   severity |-> "none",
   active_time_seconds |-> active_time,
   should_alert |-> FALSE,
   should_block |-> FALSE,
   should_warn |-> FALSE,
   should_close |-> FALSE]

\* window_verdict with the high-distraction check moved to the front
window_verdict_high_first(sig, active_time) ==
  IF sig.high.is_high_distraction
    THEN window_high(sig, active_time)
  ELSE IF sig.educational.is_educational
    THEN window_educational(sig, active_time)
  ELSE IF sig.medium.is_medium_distraction
          \/ (sig.is_youtube /\ sig.medium.detected_keywords # <<>>)
    THEN window_medium(sig, active_time)
  ELSE window_neutral(sig, active_time)

\* the if-chain of analyze_distraction_from_window over the detector outputs
window_verdict(sig, active_time) ==
  IF sig.educational.is_educational
    THEN window_educational(sig, active_time)
  ELSE IF sig.high.is_high_distraction
    THEN window_high(sig, active_time)
  ELSE IF sig.medium.is_medium_distraction
          \/ (sig.is_youtube /\ sig.medium.detected_keywords # <<>>)
    THEN window_medium(sig, active_time)
  ELSE window_neutral(sig, active_time)

\* the outcome of a call that raised exc to its caller instead of returning
Raises(exc) == [raised |-> exc]

\* window_info.get("title", "").lower(): a title or url that is present and
\* null has no lower(), and nothing catches the AttributeError; otherwise
\* the if-chain answers from the detector outputs sig
window_outcome(window_info, sig) ==
  IF window_info.title = None \/ window_info.url = None
    THEN Raises("AttributeError")
    ELSE window_verdict(sig, window_info.active_time)

analyze_distraction_from_window(window_info) ==
  window_outcome(window_info, window_signals(window_info))

(***************************************************************************)
(* /api/analyze-tab: the window path as the browser extension calls it     *)
(***************************************************************************)

\* Python: s[i - 1 : j], for i >= 1
Slice(s, i, j) ==
  IF i > Min(j, Len(s)) THEN "" ELSE SubSeq(s, i, Min(j, Len(s)))

\* the first position at which k occurs in s, 0 when it does not
Find(s, k) ==
  IF Contains(k, s)
    THEN CHOOSE i \in 1..Len(s) :
           /\ SubSeq(s, i, i + Len(k) - 1) = k
           /\ \A j \in 1..(i - 1) : SubSeq(s, j, j + Len(k) - 1) # k
    ELSE 0

\* Python: s.replace(k, "")
RECURSIVE Remove(_, _)
Remove(s, k) ==
  LET i == Find(s, k)
  IN IF i = 0 THEN s
     ELSE Slice(s, 1, i - 1) \o Remove(Slice(s, i + Len(k), Len(s)), k)

\* the characters of a URL scheme
IsSchemeChar(c) ==
  c # "" /\ (Contains(c, LowerCase) \/ Contains(c, UpperCase) \/ IsDigit(c)
              \/ c \in {"+", "-", "."})

\* urlparse(url).netloc: what follows "//" up to the next "/", "?" or "#",
\* after a scheme if the text before the first ":" is one
netloc(url) ==
  LET colon == Find(url, ":")
      has_scheme == /\ colon > 1
                    /\ ~IsDigit(CharAt(url, 1))
                    /\ \A i \in 1..(colon - 1) : IsSchemeChar(CharAt(url, i))
      rest == IF has_scheme THEN Slice(url, colon + 1, Len(url)) ELSE url
      ends == {i \in 3..Len(rest) : CharAt(rest, i) \in {"/", "?", "#"}}
      delim == IF ends = {} THEN Len(rest) + 1
               ELSE CHOOSE i \in ends : \A j \in ends : i <= j
  IN IF Slice(rest, 1, 2) = "//" THEN Slice(rest, 3, delim - 1) ELSE ""

\* site_name = parsed_url.netloc.replace("www.", "")
site_name(url) == Remove(netloc(url), "www.")

\* the active time analyze_tab gives every tab
tab_active_time == 30

\* extension_flags that block only above a score of 90
extension_flags_lenient(result) ==
  [should_warn |-> result.is_distraction /\ result.distraction_score > 50,
   should_block |-> result.is_distraction /\ result.distraction_score > 90,
   should_close |-> FALSE]

\* the actions analyze_tab derives for the extension from the verdict
extension_flags(result) ==
  [should_warn |-> result.is_distraction /\ result.distraction_score > 50,
   should_block |-> result.is_distraction /\ result.distraction_score > 70,
   should_close |-> FALSE]

\* extension_result: the verdict with the extension's flags in place of its
\* own (the messages are left out)
extension_result(result, site) ==
  LET flags == extension_flags(result)
  IN [is_distraction |-> result.is_distraction,
      distraction_score |-> result.distraction_score,
      suggested_action |-> result.suggested_action,
      detected_indicators |-> result.detected_indicators,
      content_type |-> result.content_type,
      severity |-> result.severity,
      active_time_seconds |-> result.active_time_seconds,
      should_alert |-> result.should_alert,
      should_warn |-> flags.should_warn,
      should_block |-> flags.should_block,
      should_close |-> flags.should_close,
      site_name |-> site,
      warning_level |-> IF flags.should_close THEN "high"
                        ELSE IF flags.should_block THEN "medium"
                        ELSE IF flags.should_warn THEN "low" ELSE "none",
      recommended_action |-> IF flags.should_close THEN "close_tab"
                             ELSE IF flags.should_block THEN "show_overlay"
                             ELSE IF flags.should_warn THEN "show_banner" ELSE "none"]

\* the response of analyze_tab around its result
tab_response(result) ==
  [success |-> TRUE, analysis_type |-> "browser_tab", result |-> result]

\* LAST_EDU_URL after a tab at url was analysed: a tab that is no
\* distraction and is on YouTube is remembered
remember_educational(remembered, url, result, site) ==
  IF ~result.is_distraction
     /\ (Contains("youtube.", site) \/ Contains("youtu.be", Lower(url)))
    THEN url ELSE remembered

\* Python: s.strip(), for the whitespace the urls here contain
RECURSIVE strip(_)
strip(s) ==
  LET whitespace == {" ", "\t", "\n", "\r"}
  IN IF s = "" THEN s
     ELSE IF CharAt(s, 1) \in whitespace THEN strip(Slice(s, 2, Len(s)))
     ELSE IF CharAt(s, Len(s)) \in whitespace THEN strip(Slice(s, 1, Len(s) - 1))
     ELSE s

\* POST /api/last-educational-url: the response and LAST_EDU_URL afterwards
set_last_educational_url(remembered, url) ==
  LET stripped == strip(url)
  IN IF stripped = ""
       THEN [response |-> [success |-> FALSE, error |-> "empty url"],
             LAST_EDU_URL |-> remembered]
       ELSE [response |-> [success |-> TRUE, url |-> stripped],
             LAST_EDU_URL |-> stripped]

\* simulate_block that stores the response it returns
simulate_block_stores_response(site) ==
  LET name == IF site = "" THEN "example.com" ELSE site
      stored == [success |-> TRUE,
                 analysis_type |-> "browser_tab",
                 result |-> [is_distraction |-> TRUE,
                             should_warn |-> FALSE,
                             should_block |-> TRUE,
                             should_close |-> FALSE,
                             warning_message |-> "Blocking simulated for " \o name,
                             site_name |-> name,
                             warning_level |-> "medium",
                             recommended_action |-> "show_overlay"]]
      response == [success |-> TRUE, message |-> "Simulated block stored",
                   result |-> stored]
  IN [response |-> response, LAST_TAB_RESULT |-> response]

\* POST /api/dev/simulate-block: the response and LAST_TAB_RESULT afterwards
\* (the block message is left out)
simulate_block(site) ==
  LET name == IF site = "" THEN "example.com" ELSE site
      stored == [success |-> TRUE,
                 analysis_type |-> "browser_tab",
                 result |-> [is_distraction |-> TRUE,
                             should_warn |-> FALSE,
                             should_block |-> TRUE,
                             should_close |-> FALSE,
                             warning_message |-> "Blocking simulated for " \o name,
                             site_name |-> name,
                             warning_level |-> "medium",
                             recommended_action |-> "show_overlay"]]
  IN [response |-> [success |-> TRUE, message |-> "Simulated block stored",
                    result |-> stored],
      LAST_TAB_RESULT |-> stored]

\* TabAnalyzeRequest: url and title are strings
valid_tab_request(payload) == payload.title # None /\ payload.url # None

\* what the client gets when request validation turns the payload down: the
\* handler is not run
Rejected == [status_code |-> 422]

(***************************************************************************)
(* analyze_screen_from_b64: the screen path of the classifier              *)
(***************************************************************************)

\* \w of a regular expression, on lower-case text
IsWord(c) ==
  c # "" /\ (Contains(c, LowerCase) \/ IsDigit(c) \/ c = "_")

\* [a-zA-Z0-9-], on lower-case text
IsLabelChar(c) ==
  c # "" /\ (Contains(c, LowerCase) \/ IsDigit(c) \/ c = "-")

\* \b between positions p and p + 1 of t
WordBoundary(t, p) ==
  (p >= 1 /\ IsWord(CharAt(t, p))) # (p < Len(t) /\ IsWord(CharAt(t, p + 1)))

\* the top-level domains of the pattern, in its order
top_level_domains == <<"com", "org", "net", "io", "co", "in", "ai", "gov", "edu">>

\* t[i..j] matches (?:[a-zA-Z0-9-]+\.)+ : labels, each followed by a dot
IsLabels(t, i, j) ==
  /\ i < j
  /\ CharAt(t, j) = "."
  /\ \A m \in i..j :
       IF CharAt(t, m) = "."
         THEN m > i /\ CharAt(t, m - 1) # "."
         ELSE IsLabelChar(CharAt(t, m))

\* t[i..j] matches \b(?:[a-zA-Z0-9-]+\.)+(?:com|org|..)\b
IsWebsite(t, i, j) ==
  /\ WordBoundary(t, i - 1)
  /\ WordBoundary(t, j)
  /\ \E d \in Range(top_level_domains) :
       /\ j - Len(d) >= i
       /\ SubSeq(t, j - Len(d) + 1, j) = d
       /\ IsLabels(t, i, j - Len(d))

\* the positions of t at which a top-level domain ends after a dot
DomainEnds(t) ==
  {j \in 1..Len(t) :
     \E d \in Range(top_level_domains) :
       /\ j > Len(d)
       /\ SubSeq(t, j - Len(d), j) = "." \o d}

\* extract_website: the leftmost match, with as many labels as it can take
extract_website(ocr_text) ==
  LET t == Lower(ocr_text)
      domain_ends == DomainEnds(t)
      ends(i) == {j \in domain_ends : j >= i /\ IsWebsite(t, i, j)}
      starts == {i \in 1..Len(t) : ends(i) # {}}
  IN IF starts = {} THEN "unknown"
     ELSE LET i == CHOOSE a \in starts : \A b \in starts : a <= b
              j == CHOOSE a \in ends(i) : \A b \in ends(i) : b <= a
          IN SubSeq(t, i, j)

\* website = extract_website(ocr_text) if ocr_text else "unknown"
screen_website(ocr_text) ==
  IF ocr_text = "" THEN "unknown" ELSE extract_website(ocr_text)

\* what the detectors report for the OCR text
screen_signals(text) ==
  [educational |-> detect_educational_content(text),
   high |-> detect_high_distraction_content(text),
   medium |-> detect_medium_distraction_content(text)]

screen_educational(sig) ==
  [is_distraction |-> FALSE,
   distraction_score |-> 0,
   productivity_score |-> 100,
   content_type |-> "educational",
   detected_keywords |-> sig.educational.detected_keywords,
   detection_method |-> "educational_override"]

screen_high(sig) ==
  [is_distraction |-> TRUE,
   distraction_score |-> Min(95, sig.high.distraction_score * 10),
   productivity_score |-> 5,
   content_type |-> "high_distraction",
   detected_keywords |-> sig.high.detected_keywords,
   detection_method |-> "high_distraction_blocking"]

screen_medium(sig) ==
  [is_distraction |-> TRUE,
   distraction_score |-> 60,
   productivity_score |-> 40,
   content_type |-> "medium_distraction",
   detected_keywords |-> sig.medium.detected_keywords,
   detection_method |-> "medium_distraction_detected"]

\* the fallback step; label is None, "Task" or "Distraction"
screen_fallback(label) ==
  LET is_distraction == IF label # None THEN label = "Distraction" ELSE FALSE
  IN [is_distraction |-> is_distraction,
      distraction_score |-> IF is_distraction THEN 70 ELSE 10,
      productivity_score |-> IF is_distraction THEN 30 ELSE 90,
      content_type |-> "neutral",
      detected_keywords |-> <<>>,
      detection_method |-> IF label # None THEN "model" ELSE "neutral"]

\* screen_tier with the medium check before the high check
screen_tier_medium_first(sig) ==
  IF sig.educational.is_educational THEN "educational"
  ELSE IF sig.medium.is_medium_distraction THEN "medium_distraction"
  ELSE IF sig.high.is_high_distraction THEN "high_distraction"
  ELSE "fallback"

\* the tier that ends the screen cascade, "fallback" when none does
screen_tier(sig) ==
  IF sig.educational.is_educational THEN "educational"
  ELSE IF sig.high.is_high_distraction THEN "high_distraction"
  ELSE IF sig.medium.is_medium_distraction THEN "medium_distraction"
  ELSE "fallback"

\* the if-chain of analyze_screen_from_b64 over the detector outputs
screen_verdict(sig, label) ==
  LET tier == screen_tier(sig)
  IN IF tier = "educational" THEN screen_educational(sig)
     ELSE IF tier = "high_distraction" THEN screen_high(sig)
     ELSE IF tier = "medium_distraction" THEN screen_medium(sig)
     ELSE screen_fallback(label)

\* _ensure_model: the cached model, else the one loaded from the model file
\* (file is "absent", "corrupt" or "ok"; joblib is assumed importable)
ensure_model(cached, file) ==
  IF cached # None THEN cached
  ELSE IF file = "ok" THEN "loaded" ELSE None

\* model_label that takes a failed prediction for a distraction
model_label_failed_distracts(model, predict) ==
  IF model = None THEN None
  ELSE IF predict = "throws" THEN "Distraction" ELSE predict

\* the label of the optional model step: predict is "Task", "Distraction" or
\* "throws"
model_label(model, predict) ==
  IF model = None \/ predict = "throws" THEN None ELSE predict

(***************************************************************************)
(* Inputs of a desktop session                                             *)
(***************************************************************************)

\* phrases a window title is made of
Vocabulary ==
  {"Tutorial", "math", "class", "funny", "viral", "song",
   "social media feed", "twitter followers", "funny fail compilation"}

\* titles of no, one or two phrases
Titles ==
  {""} \cup Vocabulary \cup {a \o " " \o b : a \in Vocabulary, b \in Vocabulary}

Urls ==
  {"", "https://www.youtube.com/watch?v=1", "https://facebook.com/home",
   "https://coursera.org/learn", "netflix.com/browse"}

\* seconds the window has been active when it is analysed
ActiveTimes == {0, 10, 11, 30, 31, 120, 121, 150}

\* the text OCR reads off a screenshot of the window: title line, address line
Screenshot(w) == w.title \o "\n" \o w.url

\* what the base64 field of a request holds: an encoded image, text that
\* is not base64, or base64 of bytes that are no image
Payloads == {"image", "bad_base64", "not_an_image"}

\* _b64_to_image_np of a payload that is no image: b64decode or Image.open
\* raises, and analyze_screen_from_b64 calls it outside any try
decode_error(payload) ==
  IF payload = "bad_base64" THEN "binascii.Error" ELSE "UnidentifiedImageError"

ModelFiles == {"absent", "corrupt", "ok"}
Predictions == {"Task", "Distraction", "throws"}

(***************************************************************************)
(* OpenCVFocusMonitor.  A frame is what the detectors find in it:          *)
(*   w, h      frame.shape                                                 *)
(*   dnn       boxes <<x1, y1, x2, y2>> the DNN reports above dnn_conf     *)
(*   haar, alt2, alt   rectangles <<x, y, w, h>> of the frontal cascades   *)
(*   profiles  rectangles of the profile cascade                           *)
(*   eyes      rectangles of the eye cascade inside the chosen face        *)
(*   bodies    rectangles of the upper-body cascade                        *)
(* Scores are kept exactly: focus scores in thousandths of a point,        *)
(* rounded results in tenths, confidences in hundredths.                   *)
(***************************************************************************)

Abs(x) == IF x < 0 THEN -x ELSE x

Area(r) == r[3] * r[4]

\* Python: max(rects, key=area), the first of the largest
Largest(rects) ==
  rects[CHOOSE i \in 1..Len(rects) :
          /\ \A j \in 1..Len(rects) : Area(rects[j]) <= Area(rects[i])
          /\ \A j \in 1..(i - 1) : Area(rects[j]) < Area(rects[i])]

\* Python: round(p / q, ndigits) for p >= 0, q > 0, as an integer count of
\* the last kept digit: nearest, ties to even
RoundDiv(p, q) ==
  LET f == p \div q
      r == p % q
  IN IF 2 * r < q THEN f
     ELSE IF 2 * r > q THEN f + 1
     ELSE IF f % 2 = 0 THEN f ELSE f + 1

\* the faces kept from the DNN detections
dnn_faces(frame) ==
  LET box(b) == <<Max(0, b[1]), Max(0, b[2]), Max(0, b[3] - b[1]), Max(0, b[4] - b[2])>>
      boxes == [i \in 1..Len(frame.dnn) |-> box(frame.dnn[i])]
      big(r) == r[3] > 40 /\ r[4] > 40
  IN SelectSeq(boxes, big)

\* the frontal faces: DNN first, then the Haar cascade and its two alternates
frontal_faces(frame, dnn, only) ==
  LET f0 == IF dnn THEN dnn_faces(frame) ELSE <<>>
      f1 == IF Len(f0) = 0 /\ ~only THEN frame.haar ELSE f0
      f2 == IF Len(f1) = 0 /\ ~only THEN frame.alt2 ELSE f1
      f3 == IF Len(f2) = 0 /\ ~only THEN frame.alt ELSE f2
  IN f3

\* the result of the except branch of detect_face_and_eyes
face_error ==
  [face_detected |-> FALSE, looking_at_screen |-> FALSE,
   eye_gaze |-> "error", face_confidence |-> 0]

no_face ==
  [face_detected |-> FALSE, looking_at_screen |-> FALSE,
   eye_gaze |-> "unknown", face_confidence |-> 0]

profile_face(p) ==
  [face_detected |-> TRUE, face_position |-> "profile",
   looking_at_screen |-> FALSE, eye_gaze |-> "side",
   face_confidence |-> 60, face_rect |-> p, eyes_detected |-> 0,
   face_center |-> <<p[1] + p[3] \div 2, p[2] + p[4] \div 2>>]

analyze_eye_positions(eyes, fw, fh) ==
  IF Len(eyes) < 2
    THEN [blink_detected |-> FALSE, eye_openness |-> 0, eye_symmetry |-> 0]
    ELSE LET sorted == SortSeq(eyes, LAMBDA a, b : a[1] < b[1])
             left_eye_area == Area(sorted[1])
             right_eye_area == Area(sorted[2])
             size_diff == Abs(left_eye_area - right_eye_area)
             max_eye_area == Max(left_eye_area, right_eye_area)
             \* relative_eye_size = avg_eye_area / (fw * fh) * 100
             rel_num == (left_eye_area + right_eye_area) * 100
             rel_den == 2 * fw * fh
         IN [blink_detected |-> rel_num < rel_den,
             eye_openness |-> IF rel_num >= 3 * rel_den THEN 100
                              ELSE RoundDiv(rel_num * 100, 3 * rel_den),
             eye_symmetry |-> IF max_eye_area > 0
                                THEN RoundDiv((max_eye_area - size_diff) * 100, max_eye_area)
                                ELSE 0]

\* baseline_face_size is <<>> for None and <<size>> once calibrated
Unset == <<>>

\* calibrate that moves the baseline up to the largest face seen
calibrate_largest(baseline, face_size) ==
  IF baseline = Unset THEN <<face_size>>
  ELSE IF face_size > baseline[1] THEN <<face_size>> ELSE baseline

\* baseline_face_size after a frontal face of face_size was measured
calibrate(baseline, face_size) ==
  IF baseline = Unset THEN <<face_size>> ELSE baseline

gaze_direction(face_offset_x, face_offset_y) ==
  IF Abs(face_offset_x) > Abs(face_offset_y)
    THEN IF face_offset_x > 30 THEN "right"
         ELSE IF face_offset_x < -30 THEN "left" ELSE "center"
    ELSE IF face_offset_y > 20 THEN "down"
         ELSE IF face_offset_y < -20 THEN "up" ELSE "center"

\* frontal_face that takes a centred face with eyes for looking at the
\* screen, whatever its distance
frontal_face_any_distance(frame, face, baseline, from_dnn) ==
  LET x == face[1]
      y == face[2]
      fw == face[3]
      fh == face[4]
      face_center == <<x + fw \div 2, y + fh \div 2>>
      face_offset_x == face_center[1] - frame.w \div 2
      face_offset_y == face_center[2] - frame.h \div 2
      face_size == fw * fh
      \* size_ratio = face_size / baseline, 1.0 when the baseline is 0
      is_centered_x == 5 * Abs(face_offset_x) < frame.w
      is_centered_y == 20 * Abs(face_offset_y) < 3 * frame.h
      is_good_distance == IF baseline > 0
                            THEN 7 * baseline < 10 * face_size
                                 /\ 2 * face_size < 3 * baseline
                            ELSE TRUE
      has_both_eyes == Len(frame.eyes) >= 1
      factors == <<is_centered_x, is_centered_y, is_good_distance, has_both_eyes>>
      satisfied == Cardinality({i \in 1..4 : factors[i]})
  IN IF from_dnn
       \* the DNN's faces are plain lists: face.tolist() raises and the
       \* except branch answers
       THEN face_error
       ELSE [face_detected |-> TRUE,
             face_position |-> "frontal",
             looking_at_screen |-> is_centered_x /\ is_centered_y /\ has_both_eyes,
             eye_gaze |-> gaze_direction(face_offset_x, face_offset_y),
             face_confidence |-> satisfied * 25,
             face_rect |-> face,
             face_center |-> face_center,
             face_size |-> face_size,
             eyes_detected |-> Len(frame.eyes),
             eye_analysis |-> analyze_eye_positions(frame.eyes, fw, fh)]

\* the frontal branch of detect_face_and_eyes, with the baseline already set
frontal_face(frame, face, baseline, from_dnn) ==
  LET x == face[1]
      y == face[2]
      fw == face[3]
      fh == face[4]
      face_center == <<x + fw \div 2, y + fh \div 2>>
      face_offset_x == face_center[1] - frame.w \div 2
      face_offset_y == face_center[2] - frame.h \div 2
      face_size == fw * fh
      \* size_ratio = face_size / baseline, 1.0 when the baseline is 0
      is_centered_x == 5 * Abs(face_offset_x) < frame.w
      is_centered_y == 20 * Abs(face_offset_y) < 3 * frame.h
      is_good_distance == IF baseline > 0
                            THEN 7 * baseline < 10 * face_size
                                 /\ 2 * face_size < 3 * baseline
                            ELSE TRUE
      has_both_eyes == Len(frame.eyes) >= 1
      factors == <<is_centered_x, is_centered_y, is_good_distance, has_both_eyes>>
      satisfied == Cardinality({i \in 1..4 : factors[i]})
  IN IF from_dnn
       \* the DNN's faces are plain lists: face.tolist() raises and the
       \* except branch answers
       THEN face_error
       ELSE [face_detected |-> TRUE,
             face_position |-> "frontal",
             looking_at_screen |-> is_centered_x /\ is_centered_y
                                   /\ is_good_distance /\ has_both_eyes,
             eye_gaze |-> gaze_direction(face_offset_x, face_offset_y),
             face_confidence |-> satisfied * 25,
             face_rect |-> face,
             face_center |-> face_center,
             face_size |-> face_size,
             eyes_detected |-> Len(frame.eyes),
             eye_analysis |-> analyze_eye_positions(frame.eyes, fw, fh)]

\* detect_face_and_eyes with a baseline that follows the face: each frontal
\* face is measured against the one before it
detect_face_and_eyes_tracking(frame, baseline, dnn, only) ==
  LET faces == frontal_faces(frame, dnn, only)
      from_dnn == dnn /\ Len(dnn_faces(frame)) > 0
  IN IF Len(faces) = 0
       THEN IF only
              THEN [data |-> face_error, baseline |-> baseline]
              ELSE IF Len(frame.profiles) > 0
                THEN [data |-> profile_face(frame.profiles[1]), baseline |-> baseline]
                ELSE [data |-> no_face, baseline |-> baseline]
       ELSE LET face == Largest(faces)
                set == calibrate(baseline, Area(face))
            IN [data |-> frontal_face(frame, face, set[1], from_dnn),
                baseline |-> <<Area(face)>>]

\* detect_face_and_eyes: the gaze data and the baseline it leaves behind
detect_face_and_eyes(frame, baseline, dnn, only) ==
  LET faces == frontal_faces(frame, dnn, only)
      from_dnn == dnn /\ Len(dnn_faces(frame)) > 0
  IN IF Len(faces) = 0
       THEN IF only
              \* max() of an empty list raises
              THEN [data |-> face_error, baseline |-> baseline]
              ELSE IF Len(frame.profiles) > 0
                THEN [data |-> profile_face(frame.profiles[1]), baseline |-> baseline]
                ELSE [data |-> no_face, baseline |-> baseline]
       ELSE LET face == Largest(faces)
                set == calibrate(baseline, Area(face))
            IN [data |-> frontal_face(frame, face, set[1], from_dnn), baseline |-> set]


\* posture_score (in tenths, as round(posture_score, 1) returns it), level,
\* indicators and recommendations of analyze_posture
posture_level(score_tenths) ==
  IF score_tenths >= 800 THEN "excellent"
  ELSE IF score_tenths >= 650 THEN "good"
  ELSE IF score_tenths >= 500 THEN "fair"
  ELSE "poor"

\* indicators.get(key, True)
GetOrTrue(indicators, key) ==
  IF key \in DOMAIN indicators THEN indicators[key] ELSE TRUE

posture_recommendations(indicators) ==
  LET recs == (IF ~GetOrTrue(indicators, "head_body_aligned")
                 THEN <<"Center your head above your body">> ELSE <<>>)
              \o (IF ~GetOrTrue(indicators, "upright_posture")
                    THEN <<"Sit up straight">> ELSE <<>>)
              \o (IF ~GetOrTrue(indicators, "facing_camera")
                    THEN <<"Face the camera directly">> ELSE <<>>)
  IN IF recs = <<>> THEN <<"Good posture!">> ELSE recs

\* body_posture_score with ten points per satisfied factor
body_posture_score_by_ten(satisfied) == 25000 + satisfied * 10000

\* the posture score in thousandths before rounding
\* body and face: 25 + (satisfied / 4) * 75
body_posture_score(satisfied) == 25000 + satisfied * 18750

analyze_posture(frame, face_data) ==
  LET w == frame.w
      h == frame.h
      scored ==
        IF Len(frame.bodies) > 0 /\ face_data.face_detected
          THEN LET body == Largest(frame.bodies)
                   bx == body[1]
                   by == body[2]
                   bw == body[3]
                   bh == body[4]
                   face_center == face_data.face_center
                   head_body_alignment == Abs(face_center[1] - (bx + bw \div 2))
                   is_aligned == 5 * head_body_alignment < bw
                   \* 0.1 < (face_center[1] - by) / bh < 0.4
                   is_head_positioned_well ==
                     IF bh > 0
                       THEN bh < 10 * (face_center[2] - by)
                            /\ 5 * (face_center[2] - by) < 2 * bh
                       ELSE FALSE
                   \* 0.8 < bw / (w * 0.25) < 1.5
                   is_facing_camera == w < 5 * bw /\ 8 * bw < 3 * w
                   \* bh / bw > 1.2
                   is_upright == IF bw > 0 THEN 5 * bh > 6 * bw ELSE FALSE
                   factors == <<is_aligned, is_head_positioned_well,
                                is_facing_camera, is_upright>>
                   satisfied == Cardinality({i \in 1..4 : factors[i]})
               IN [score |-> body_posture_score(satisfied),
                   indicators |-> [body_detected |-> TRUE,
                                   head_body_aligned |-> is_aligned,
                                   head_positioned_well |-> is_head_positioned_well,
                                   facing_camera |-> is_facing_camera,
                                   upright_posture |-> is_upright]]
        ELSE IF face_data.face_detected
          THEN LET face_rect == face_data.face_rect
                   face_center_x == face_rect[1] + face_rect[3] \div 2
                   face_y_position == face_rect[2] + face_rect[4] \div 2
                   is_centered == 20 * Abs(face_center_x - w \div 2) < 3 * w
                   \* 0.2 < face_y_position / h < 0.6
                   is_good_height == h < 5 * face_y_position
                                     /\ 5 * face_y_position < 3 * h
               IN [score |-> IF is_centered /\ is_good_height THEN 40000 ELSE 25000,
                   indicators |-> [body_detected |-> FALSE,
                                   face_centered |-> is_centered,
                                   good_face_height |-> is_good_height,
                                   estimated_from_face |-> TRUE]]
          ELSE [score |-> 50000,
                indicators |-> [body_detected |-> FALSE, face_detected |-> FALSE]]
      rounded == RoundDiv(scored.score, 100)
  IN [posture_score |-> rounded,
      \* the level is taken from the score before rounding
      posture_level |-> posture_level(scored.score \div 100),
      indicators |-> scored.indicators,
      recommendations |-> posture_recommendations(scored.indicators)]

\* phone_cues that reads nothing into a missing face
phone_cues_silent(frame, face_data, baseline) == <<>>

\* the cues of detect_phone_usage, in the order the code adds them, with
\* their weights in tenths
phone_cues(frame, face_data, baseline) ==
  IF face_data.face_detected
    THEN LET face_center == face_data.face_center
             face_rect == face_data.face_rect
             face_size == face_rect[3] * face_rect[4]
             \* face_center[1] / h > 0.6
             looking_down == 5 * face_center[2] > 3 * frame.h
             \* baseline_face_size and face_size > baseline * 1.3
             too_close == baseline # Unset /\ baseline[1] # 0
                          /\ 10 * face_size > 13 * baseline[1]
             \* eye_analysis.get("eye_symmetry", 1.0) < 0.7
             tilted == "eye_analysis" \in DOMAIN face_data
                       /\ face_data.eye_analysis.eye_symmetry < 70
             profile == face_data.face_position = "profile"
             poor_gaze == face_data.eye_gaze \in {"down", "side"}
         IN (IF looking_down THEN <<[name |-> "looking_down", weight |-> 3]>> ELSE <<>>)
            \o (IF too_close THEN <<[name |-> "too_close", weight |-> 2]>> ELSE <<>>)
            \o (IF tilted THEN <<[name |-> "tilted_face", weight |-> 2]>> ELSE <<>>)
            \o (IF profile THEN <<[name |-> "profile_view", weight |-> 4]>> ELSE <<>>)
            \o (IF poor_gaze THEN <<[name |-> "poor_gaze", weight |-> 1]>> ELSE <<>>)
    ELSE <<[name |-> "no_face_detected", weight |-> 2]>>

\* the floating-point sum 0.2 + 0.4 + 0.1 is 0.7000000000000001: these cue
\* sets compare greater than 0.7 although their weights add up to 0.7
FloatAbove07(names) ==
  names \in {<<"too_close", "profile_view", "poor_gaze">>,
             <<"tilted_face", "profile_view", "poor_gaze">>}

detect_phone_usage(frame, face_data, baseline) ==
  LET cues == phone_cues(frame, face_data, baseline)
      names == [i \in 1..Len(cues) |-> cues[i].name]
      tenths == Min(SumSeq([i \in 1..Len(cues) |-> cues[i].weight]), 10)
      phone_detected == tenths > 4
  IN [phone_detected |-> phone_detected,
      phone_confidence |-> tenths * 10,
      risk_level |-> IF tenths > 7 \/ FloatAbove07(names) THEN "high"
                     ELSE IF tenths > 4 THEN "medium" ELSE "low",
      indicators |-> names,
      recommendation |-> IF phone_detected
                           THEN "Put phone away and focus on screen"
                           ELSE "Great! Stay focused"]


\* focus_total without the clamp
focus_total_unclamped(gaze_score, posture_score, phone_penalty) ==
  gaze_score + posture_score - phone_penalty

\* total_score = max(0, min(100, gaze + posture - penalty)), in thousandths
focus_total(gaze_score, posture_score, phone_penalty) ==
  Max(0, Min(100000, gaze_score + posture_score - phone_penalty))

focus_level(total_score) ==
  IF total_score >= 85000 THEN "excellent"
  ELSE IF total_score >= 70000 THEN "good"
  ELSE IF total_score >= 50000 THEN "fair"
  ELSE IF total_score >= 30000 THEN "poor"
  ELSE "critical"

\* the window, in seconds, of the focus history
history_window == 300

\* prune that keeps everything
prune_nothing(history, current_time) == history

\* prune that keeps the record on the cutoff
prune_inclusive(history, current_time) ==
  LET cutoff_time == current_time - history_window
      kept(r) == r.timestamp >= cutoff_time
  IN SelectSeq(history, kept)

\* prune that also drops the record taken at current_time
prune_strictly_older(history, current_time) ==
  LET cutoff_time == current_time - history_window
      kept(r) == r.timestamp > cutoff_time /\ r.timestamp < current_time
  IN SelectSeq(history, kept)

\* self.focus_history after the prune at current_time
prune(history, current_time) ==
  LET cutoff_time == current_time - history_window
      kept(r) == r.timestamp > cutoff_time
  IN SelectSeq(history, kept)

\* The code computes in binary floating point.  The scores here are the
\* exact decimal values; the doubles differ from them by less than 1e-12,
\* which no comparison with a threshold notices, but round(_, 1) does where
\* the decimal value is a tie x.x5.  Of the component values the code can
\* produce (thousandths), these give a double total just below such a tie
\* that half-to-even rounding of the decimal value would round up
below_tie(components) ==
  <<components.gaze, components.posture, components.phone_penalty>>
    \in {<<0, 8750, 4000>>, <<0, 8750, 8000>>, <<10000, 8750, 8000>>,
         <<10000, 8750, 16000>>, <<10000, 8750, 18000>>}

\* round(total_score, 1), in tenths
round_total(total_score, components) ==
  IF below_tie(components) /\ total_score % 100 = 50
    THEN total_score \div 100
    ELSE RoundDiv(total_score, 100)

\* round(p / q, 1) of a mean of several doubles, in tenths: at a decimal tie
\* the double lies on either side, and up tells which
round_mean(p, q, up) ==
  IF 2 * (p % q) = q
    THEN (p \div q) + (IF up THEN 1 ELSE 0)
    ELSE RoundDiv(p, q)

\* round(np.mean(scores), 1) in tenths; the mean of one double is that
\* double.  With nothing kept the code returns the unrounded total, which
\* cannot happen after an append
session_average(history, total_score, up) ==
  LET n == Len(history)
      sum == SumSeq([i \in 1..n |-> history[i].score])
  IN IF n = 0 THEN total_score \div 100
     ELSE IF n = 1 THEN round_total(sum, history[1].components)
     ELSE round_mean(sum, 100 * n, up)

\* focus_recommendations with the phone advice ahead of the posture advice
focus_recommendations_phone_first(gaze_score, posture_score, phone_penalty, posture_data, phone_data) ==
  LET recs == (IF gaze_score < 25000
                 THEN <<"Look directly at your screen">> ELSE <<>>)
              \o (IF phone_penalty > 10000 THEN <<phone_data.recommendation>> ELSE <<>>)
              \o (IF posture_score < 20000 THEN posture_data.recommendations ELSE <<>>)
      all == IF recs = <<>> THEN <<"Excellent focus! Keep it up!">> ELSE recs
  IN SubSeq(all, 1, Min(3, Len(all)))

\* the recommendations of calculate_focus_score: gaze, posture, phone, the
\* acknowledgement when none applies, and of these the first three
focus_recommendations(gaze_score, posture_score, phone_penalty, posture_data, phone_data) ==
  LET recs == (IF gaze_score < 25000
                 THEN <<"Look directly at your screen">> ELSE <<>>)
              \o (IF posture_score < 20000 THEN posture_data.recommendations ELSE <<>>)
              \o (IF phone_penalty > 10000 THEN <<phone_data.recommendation>> ELSE <<>>)
      all == IF recs = <<>> THEN <<"Excellent focus! Keep it up!">> ELSE recs
  IN SubSeq(all, 1, Min(3, Len(all)))

\* calculate_focus_score: the metrics returned and the history left behind
calculate_focus_score(gaze_data, posture_data, phone_data, history, current_time, up) ==
  LET gaze_score == IF gaze_data.face_detected
                      THEN IF gaze_data.looking_at_screen
                             THEN 450 * gaze_data.face_confidence
                             ELSE 10000
                      ELSE 0
      posture_score == posture_data.posture_score * 35
      phone_penalty == phone_data.phone_confidence * 200
      total_score == focus_total(gaze_score, posture_score, phone_penalty)
      components == [gaze |-> gaze_score, posture |-> posture_score,
                     phone_penalty |-> phone_penalty]
      record == [timestamp |-> current_time, score |-> total_score,
                 components |-> components]
      kept == prune(Append(history, record), current_time)
  IN [metrics |-> [overall_focus_score |-> round_total(total_score, components),
                   focus_level |-> focus_level(total_score),
                   component_scores |-> [gaze_score |-> RoundDiv(gaze_score, 100),
                                         posture_score |-> RoundDiv(posture_score, 100),
                                         phone_penalty |-> RoundDiv(phone_penalty, 100)],
                   recommendations |-> focus_recommendations(
                                         gaze_score, posture_score, phone_penalty,
                                         posture_data, phone_data),
                   session_average |-> session_average(kept, total_score, up)],
      record |-> record,
      history |-> kept]

\* the alerts analyze_frame derives
frame_alerts(gaze_data, posture_data, phone_data) ==
  (IF ~gaze_data.looking_at_screen THEN <<"Eyes not focused on screen">> ELSE <<>>)
  \o (IF posture_data.posture_score < 500 THEN <<"Poor posture detected">> ELSE <<>>)
  \o (IF phone_data.phone_detected THEN <<"Possible phone usage">> ELSE <<>>)

\* the result dictionary analyze_frame builds from the three analyses and
\* the focus metrics
frame_result(gaze_data, posture_data, phone_data, metrics, current_time, count) ==
  [timestamp |-> current_time,
   frame_count |-> count,
   focus_score |-> metrics.overall_focus_score,
   focus_level |-> metrics.focus_level,
   gaze_analysis |-> gaze_data,
   posture_analysis |-> posture_data,
   phone_analysis |-> phone_data,
   component_scores |-> metrics.component_scores,
   recommendations |-> metrics.recommendations,
   alerts |-> frame_alerts(gaze_data, posture_data, phone_data),
   session_average_focus |-> metrics.session_average,
   analysis_quality |-> IF gaze_data.face_detected THEN "good" ELSE "limited",
   eye_gaze |-> gaze_data.eye_gaze,
   looking_at_screen |-> gaze_data.looking_at_screen,
   face_detected |-> gaze_data.face_detected,
   posture_score |-> posture_data.posture_score,
   phone_detected |-> phone_data.phone_detected]

\* analyze_frame of a monitor in state m = [baseline, history, frame_count,
\* dnn, only] at time current_time: the result and the monitor's new state
analyze_frame(frame, m, current_time, up) ==
  LET gaze == detect_face_and_eyes(frame, m.baseline, m.dnn, m.only)
      posture_data == analyze_posture(frame, gaze.data)
      phone_data == detect_phone_usage(frame, gaze.data, gaze.baseline)
      focus == calculate_focus_score(gaze.data, posture_data, phone_data,
                                     m.history, current_time, up)
  IN [result |-> frame_result(gaze.data, posture_data, phone_data, focus.metrics,
                              current_time, m.frame_count + 1),
      record |-> focus.record,
      baseline |-> gaze.baseline,
      history |-> focus.history,
      frame_count |-> m.frame_count + 1]

\* analyze_focus_from_b64 of a payload that is no image: b64decode raises
\* into the except branch, or imdecode returns None; the monitor is not
\* reached
focus_undecodable(payload) ==
  IF payload = "bad_base64"
    THEN [error |-> "binascii.Error",
          focus_score |-> 0,
          focus_level |-> "error",
          eye_gaze |-> "unknown",
          looking_at_screen |-> FALSE,
          face_detected |-> FALSE,
          recommendations |-> <<"Error analyzing focus - check camera and lighting">>,
          alerts |-> <<"Analysis failed">>]
    ELSE [error |-> "Failed to decode frame",
          focus_score |-> 0,
          focus_level |-> "error",
          face_detected |-> FALSE,
          looking_at_screen |-> FALSE]

(***************************************************************************)
(* Inputs of a camera session: 640 x 480 frames                            *)
(***************************************************************************)

Frame(dnn, haar, profiles, eyes, bodies) ==
  [w |-> 640, h |-> 480, dnn |-> dnn, haar |-> haar, alt2 |-> <<>>, alt |-> <<>>,
   profiles |-> profiles, eyes |-> eyes, bodies |-> bodies]

\* nobody in front of the camera
FrameEmpty == Frame(<<>>, <<>>, <<>>, <<>>, <<>>)

\* a centred face with both eyes, upright body behind it
FrameCentred ==
  Frame(<< <<270, 190, 370, 290>> >>, << <<270, 190, 100, 100>> >>, <<>>,
        << <<20, 25, 24, 24>>, <<56, 25, 24, 24>> >>,
        << <<220, 200, 200, 260>> >>)

\* a centred face close to the camera, eyes of unequal size, and a second,
\* smaller face behind
FrameNear ==
  Frame(<<>>, << <<500, 50, 60, 60>>, <<240, 160, 160, 160>> >>, <<>>,
        << <<30, 40, 40, 40>>, <<90, 40, 20, 20>> >>, <<>>)

\* a face low and left of the centre, one eye found, body wider than tall
FrameLow ==
  Frame(<<>>, << <<170, 330, 100, 100>> >>, <<>>,
        << <<20, 25, 24, 24>> >>,
        << <<20, 250, 300, 200>> >>)

\* a large profile low in the frame
FrameProfile ==
  Frame(<<>>, <<>>, << <<60, 300, 180, 180>> >>, <<>>, <<>>)

\* a face only the second alternate cascade finds
FrameAlt ==
  [Frame(<<>>, <<>>, <<>>, << <<30, 30, 30, 30>>, <<70, 30, 30, 30>> >>, <<>>)
     EXCEPT !.alt = << <<250, 150, 120, 120>> >>]

Frames == {FrameEmpty, FrameCentred, FrameNear, FrameLow, FrameProfile, FrameAlt}

\* seconds between two events of a camera session
TickSteps == {150, 300}

\* the session clock stops here
MaxTime == 600

\* frames analysed in one session
MaxFrames == 3

(***************************************************************************)
(* State machine.  A behaviour is one session: a desktop session, in which *)
(* one window is classified again and again, a camera session, in which    *)
(* one monitor analyses frames as time passes, or a session of the browser *)
(* extension, which reports tabs and reads back what the server remembers. *)
(***************************************************************************)

NoCall == [op |-> None]

\* the worker threads of the server's thread pool that serve /api/analyze-focus
Threads == {"t1", "t2"}

\* a worker thread between two requests
Idle == [pc |-> "idle", frame |-> None, self |-> 0, record |-> <<>>, kept |-> <<>>]

\* the session_id values of the /api/analyze-focus requests
Sessions == {"s1", "s2"}

\* the frames the sessions send: every frame from the first session, one
\* frame with a different face from the second
Requests == (Frames \X {"s1"}) \cup ({FrameNear} \X {"s2"})

\* baseline, history and frame counter of a monitor just constructed
FreshMonitor == [baseline |-> Unset, history |-> <<>>, frame_count |-> 0]

Windows == [title : Titles, url : Urls]

NoWindow == [title |-> "", url |-> ""]

\* the detector outputs of every window the session may observe
WindowSignals ==
  [w \in Windows |->
     window_signals([title |-> w.title, url |-> w.url, active_time |-> 0])] @@ <<>>

ScreenTexts == {Screenshot(w) : w \in Windows} \cup {""}

ScreenSignals == [t \in ScreenTexts |-> screen_signals(t)] @@ <<>>

\* the website read off every text
ScreenWebsites == [t \in ScreenTexts |-> screen_website(t)] @@ <<>>

\* the pages /api/test-extension analyses, and what it expects of them
test_cases ==
  <<[url |-> "https://youtube.com", expected |-> "should_block"],
    [url |-> "https://facebook.com", expected |-> "should_block"],
    [url |-> "https://stackoverflow.com", expected |-> "should_allow"],
    [url |-> "https://github.com", expected |-> "should_allow"]>>

\* payload.title of a test case: f"Test page - {case['url']}"
test_title(url) == "Test page - " \o url

TestTabs ==
  {[title |-> test_title(test_cases[i].url), url |-> test_cases[i].url] :
     i \in 1..Len(test_cases)}

\* test_results of test_extension_integration
test_results ==
  [i \in 1..Len(test_cases) |->
     LET case == test_cases[i]
         result == analyze_distraction_from_window(
                     [title |-> test_title(case.url), url |-> case.url,
                      active_time |-> tab_active_time])
     IN [url |-> case.url,
         expected |-> case.expected,
         is_distraction |-> result.is_distraction,
         distraction_score |-> result.distraction_score,
         detected_indicators |-> result.detected_indicators]]

\* the tabs the browser extension reports: the test pages, and tabs of every
\* tier on and off YouTube
Tabs ==
  TestTabs
    \cup {[title |-> "", url |-> ""],
          [title |-> "", url |-> "https://www.youtube.com/watch?v=1"],
          [title |-> "Tutorial", url |-> "https://www.youtube.com/watch?v=1"],
          [title |-> "funny viral", url |-> "https://www.youtube.com/watch?v=1"],
          [title |-> "social media feed", url |-> "https://www.youtube.com/watch?v=1"],
          [title |-> "", url |-> "https://facebook.com/home"],
          [title |-> "funny fail compilation", url |-> "https://facebook.com/home"],
          [title |-> "Tutorial", url |-> "https://coursera.org/learn"]}

\* the detector outputs of every tab
TabSignals ==
  [w \in Tabs |->
     window_signals([title |-> w.title, url |-> w.url, active_time |-> 0])] @@ <<>>

\* the site name of every url a tab may have
SiteNames == [u \in {w.url : w \in Tabs} |-> site_name(u)] @@ <<>>

\* the payloads sent to /api/analyze-tab: the tabs, and one without a title
TabPayloads ==
  Tabs \cup {[title |-> None, url |-> "https://www.youtube.com/watch?v=1"]}

\* the urls sent to POST /api/last-educational-url
EduUrls ==
  {"", " \t\n", " https://www.khanacademy.org/math\n",
   "https://www.khanacademy.org/math"}

\* the sites sent to /api/dev/simulate-block
BlockSites == {"", "reddit.com"}

\* LAST_TAB_RESULT before any tab was analysed
NoTabResult ==
  [success |-> FALSE, analysis_type |-> "browser_tab", result |-> <<>>]

\* LAST_EDU_URL when DEFAULT_EDU_URL is not set
DefaultEduUrl ==
  "https://www.youtube.com/embed/?listType=playlist&list=PL-osiE80TeTs4UjLw5MM6OjgkjFeUxCYH"

\* OpenCVFocusMonitor.__init__; the DNN detector is used when its model
\* files exist, and FACE_DNN_ONLY is read only then
MonitorInit ==
  /\ use_dnn \in BOOLEAN
  /\ dnn_only \in BOOLEAN
  /\ dnn_only => use_dnn
  /\ focus_history = <<>>
  /\ baseline_face_size = Unset
  /\ frame_count = 0
  /\ now = 0
  /\ appended = <<>>
  /\ isolated = [s \in Sessions |-> FreshMonitor]

DesktopInit ==
  /\ session = "desktop"
  /\ created = 0
  /\ window \in Windows
  /\ MODEL = None
  /\ use_dnn = FALSE
  /\ dnn_only = FALSE
  /\ focus_history = <<>>
  /\ baseline_face_size = Unset
  /\ frame_count = 0
  /\ now = 0
  /\ appended = <<>>
  /\ isolated = [s \in Sessions |-> FreshMonitor]

CameraInit ==
  /\ session = "camera"
  /\ window = NoWindow
  /\ MODEL = None
  /\ MonitorInit
  /\ created = 1

\* the browser extension talks to a server just started
ExtensionInit ==
  /\ session = "extension"
  /\ created = 0
  /\ window = NoWindow
  /\ MODEL = None
  /\ use_dnn = FALSE
  /\ dnn_only = FALSE
  /\ focus_history = <<>>
  /\ baseline_face_size = Unset
  /\ frame_count = 0
  /\ now = 0
  /\ appended = <<>>
  /\ isolated = [s \in Sessions |-> FreshMonitor]

Init ==
  /\ DesktopInit \/ CameraInit \/ ExtensionInit
  /\ LAST_TAB_RESULT = NoTabResult
  /\ LAST_EDU_URL = DefaultEduUrl
  /\ last_call = NoCall
  /\ previous = NoCall
  /\ threads = [t \in Threads |-> Idle]

\* what the call before this one returned, kept when it was the same
\* operation on the same input
Repeat(call) ==
  IF last_call.op = call.op /\ last_call.input = call.input
    THEN last_call ELSE NoCall

\* the window_info a client sends for window w: as observed at some active
\* time, or with a null in place of the title or the url
WindowInfos(w) ==
  {[title |-> w.title, url |-> w.url, active_time |-> t] : t \in ActiveTimes}
    \cup {[title |-> None, url |-> w.url, active_time |-> 0],
          [title |-> w.title, url |-> None, active_time |-> 0]}

\* POST /api/detect-distractions: the window is analysed at some active time
AnalyzeWindow ==
  /\ session = "desktop"
  /\ LET sig == WindowSignals[window]
     IN \E window_info \in WindowInfos(window) :
          LET call == [op |-> "analyze_distraction_from_window",
                       input |-> window_info,
                       signals |-> sig,
                       result |-> window_outcome(window_info, sig)]
          IN /\ last_call' = call
             /\ previous' = Repeat(call)
  /\ UNCHANGED <<session, window, MODEL, monitor_vars, created, threads,
                 extension_vars>>

\* POST /api/analyze-tab: the extension sends the title and url of the tab;
\* request validation admits strings only.  The window path analyses them
\* at the default active time, and the response is cached
AnalyzeTab ==
  /\ session = "extension"
  /\ \E tab \in TabPayloads :
       IF valid_tab_request(tab)
         THEN \E sig \in {TabSignals[tab]}, site \in {SiteNames[tab.url]} :
                \E result \in {extension_result(window_verdict(sig, tab_active_time), site)} :
                  /\ LAST_EDU_URL' = remember_educational(LAST_EDU_URL, tab.url, result, site)
                  /\ LAST_TAB_RESULT' = tab_response(result)
                  /\ \E call \in {[op |-> "analyze_tab",
                                    input |-> [title |-> tab.title, url |-> tab.url],
                                    signals |-> sig,
                                    result |-> result,
                                    response |-> tab_response(result)]} :
                       /\ last_call' = call
                       /\ previous' = Repeat(call)
         ELSE /\ \E call \in {[op |-> "analyze_tab",
                                input |-> [title |-> tab.title, url |-> tab.url],
                                result |-> Rejected,
                                response |-> Rejected]} :
                   /\ last_call' = call
                   /\ previous' = Repeat(call)
              /\ UNCHANGED extension_vars
  /\ UNCHANGED <<session, window, MODEL, monitor_vars, created, threads>>

\* GET /api/last-tab
GetLastTab ==
  /\ session = "extension"
  /\ \E call \in {[op |-> "get_last_tab", input |-> <<>>,
                    result |-> LAST_TAB_RESULT]} :
       /\ last_call' = call
       /\ previous' = Repeat(call)
  /\ UNCHANGED <<session, window, MODEL, monitor_vars, created, threads,
                 extension_vars>>

\* POST /api/dev/simulate-block
SimulateBlock ==
  /\ session = "extension"
  /\ \E site \in BlockSites :
       \E done \in {simulate_block(site)} :
         /\ LAST_TAB_RESULT' = done.LAST_TAB_RESULT
         /\ \E call \in {[op |-> "simulate_block", input |-> site,
                           result |-> done.response]} :
              /\ last_call' = call
              /\ previous' = Repeat(call)
  /\ UNCHANGED <<session, window, MODEL, monitor_vars, created, threads,
                 LAST_EDU_URL>>

\* POST /api/last-educational-url
SetLastEducationalUrl ==
  /\ session = "extension"
  /\ \E url \in EduUrls :
       \E done \in {set_last_educational_url(LAST_EDU_URL, url)} :
         /\ LAST_EDU_URL' = done.LAST_EDU_URL
         /\ \E call \in {[op |-> "set_last_educational_url", input |-> url,
                           result |-> done.response]} :
              /\ last_call' = call
              /\ previous' = Repeat(call)
  /\ UNCHANGED <<session, window, MODEL, monitor_vars, created, threads,
                 LAST_TAB_RESULT>>

\* GET /api/test-extension: the four test pages are analysed as tabs are
TestExtension ==
  /\ session = "extension"
  /\ \E call \in {[op |-> "test_extension_integration",
                    input |-> <<>>,
                    result |-> [success |-> TRUE, test_results |-> test_results]]} :
       /\ last_call' = call
       /\ previous' = Repeat(call)
  /\ UNCHANGED <<session, window, MODEL, monitor_vars, created, threads,
                 extension_vars>>

\* POST /api/analyze-screen: a screenshot of the window is analysed; OCR may
\* fail or be missing, and the model file and the model's answer are the
\* environment's
AnalyzeScreen ==
  /\ session = "desktop"
  /\ \/ \E payload \in Payloads \ {"image"} :
          LET call == [op |-> "analyze_screen_from_b64",
                       input |-> [payload |-> payload],
                       result |-> Raises(decode_error(payload))]
          IN /\ MODEL' = MODEL
             /\ last_call' = call
             /\ previous' = Repeat(call)
     \/ \E ocr_ok \in BOOLEAN :
       LET text == IF ocr_ok THEN Screenshot(window) ELSE ""
           sig == ScreenSignals[text]
           fallback == screen_tier(sig) = "fallback"
       IN \E file \in ModelFiles, predict \in Predictions :
            LET model == IF fallback THEN ensure_model(MODEL, file) ELSE MODEL
                label == IF fallback THEN model_label(model, predict) ELSE None
                call == [op |-> "analyze_screen_from_b64",
                         input |-> [ocr_text |-> text, model_file |-> file,
                                    predict |-> predict],
                         signals |-> sig,
                         website |-> ScreenWebsites[text],
                         label |-> label,
                         result |-> screen_verdict(sig, label)]
            IN /\ MODEL' = model
               /\ last_call' = call
               /\ previous' = Repeat(call)
  /\ UNCHANGED <<session, window, monitor_vars, created, threads, extension_vars>>

\* POST /api/analyze-focus: a payload that is no image is answered by the
\* entry point; a frame the camera delivers is analysed by the monitor
AnalyzeFrame ==
  /\ session = "camera"
  /\ \/ \E payload \in Payloads \ {"image"} :
          \E call \in {[op |-> "analyze_focus_from_b64",
                         input |-> [payload |-> payload],
                         result |-> focus_undecodable(payload)]} :
            /\ last_call' = call
            /\ previous' = Repeat(call)
            /\ UNCHANGED <<baseline_face_size, focus_history, frame_count, appended,
                           isolated>>
     \/ /\ frame_count < MaxFrames
        /\ \E request \in Requests, up \in BOOLEAN :
             \E frame \in {request[1]}, session_id \in {request[2]} :
               \E r \in {analyze_frame(frame,
                                        [baseline |-> baseline_face_size,
                                         history |-> focus_history,
                                         frame_count |-> frame_count,
                                         dnn |-> use_dnn, only |-> dnn_only],
                                        now, up)},
                  own \in {analyze_frame(frame,
                                          [baseline |-> isolated[session_id].baseline,
                                           history |-> isolated[session_id].history,
                                           frame_count |-> isolated[session_id].frame_count,
                                           dnn |-> use_dnn, only |-> dnn_only],
                                          now, up)} :
                 /\ baseline_face_size' = r.baseline
                 /\ focus_history' = r.history
                 /\ frame_count' = r.frame_count
                 /\ appended' = Append(appended, r.record)
                 /\ isolated' = [isolated EXCEPT ![session_id] =
                                   [baseline |-> own.baseline,
                                    history |-> own.history,
                                    frame_count |-> own.frame_count]]
                 /\ \E call \in {[op |-> "analyze_frame",
                                   session_id |-> session_id,
                                   input |-> frame,
                                   history_before |-> focus_history,
                                   baseline_before |-> baseline_face_size,
                                   result |-> r.result,
                                   isolated_result |-> own.result]} :
                      /\ last_call' = call
                      /\ previous' = Repeat(call)
  /\ UNCHANGED <<session, window, MODEL, use_dnn, dnn_only, now, created, threads,
                 extension_vars>>

\* time passes between two frames
Tick ==
  /\ session = "camera"
  /\ \E dt \in TickSteps :
       /\ now + dt <= MaxTime
       /\ now' = now + dt
  /\ UNCHANGED <<session, window, MODEL, use_dnn, dnn_only, focus_history,
                 baseline_face_size, frame_count, appended, isolated, last_call,
                 previous, created, threads, extension_vars>>

Next ==
  \/ AnalyzeWindow
  \/ AnalyzeScreen
  \/ AnalyzeFrame
  \/ Tick
  \/ AnalyzeTab
  \/ TestExtension
  \/ GetLastTab
  \/ SimulateBlock
  \/ SetLastEducationalUrl

Spec == Init /\ [][Next]_vars

(***************************************************************************)
(* /api/analyze-focus under concurrent requests.  The endpoint is a plain  *)
(* def, which the server runs on worker threads; the threads share the     *)
(* function attribute analyze_focus_from_b64.monitor and take no lock.     *)
(* Each step below is one access of the shared attribute or list; what a   *)
(* thread computes on its locals in between is part of the step before.    *)
(***************************************************************************)

\* the variables the concurrent steps leave alone
served_vars == <<session, window, MODEL, use_dnn, dnn_only, now, isolated,
                 last_call, previous, LAST_TAB_RESULT, LAST_EDU_URL>>

\* the thread holds the monitor the attribute refers to now
Current(t) == threads[t].self = created

ConcurrentInit ==
  /\ session = "camera"
  /\ window = NoWindow
  /\ MODEL = None
  /\ use_dnn = FALSE
  /\ dnn_only = FALSE
  /\ focus_history = <<>>
  /\ baseline_face_size = Unset
  /\ frame_count = 0
  /\ now = 0
  /\ appended = <<>>
  /\ isolated = [s \in Sessions |-> FreshMonitor]
  /\ last_call = NoCall
  /\ previous = NoCall
  /\ created = 0
  /\ threads = [t \in Threads |-> Idle]
  /\ LAST_TAB_RESULT = NoTabResult
  /\ LAST_EDU_URL = DefaultEduUrl

\* a request arrives and its frame decodes; hasattr(analyze_focus_from_b64,
\* 'monitor') is evaluated
CheckMonitor(t) ==
  /\ threads[t].pc = "idle"
  /\ \E frame \in Frames :
       threads' = [threads EXCEPT ![t] =
                     [Idle EXCEPT !.frame = frame,
                                  !.pc = IF created = 0 THEN "construct" ELSE "load"]]
  /\ UNCHANGED <<served_vars, monitor_vars, created>>

\* analyze_focus_from_b64.monitor = OpenCVFocusMonitor(): the new monitor
\* replaces whatever the attribute referred to
CreateMonitor(t) ==
  /\ threads[t].pc = "construct"
  /\ created' = created + 1
  /\ focus_history' = <<>>
  /\ baseline_face_size' = Unset
  /\ frame_count' = 0
  /\ threads' = [threads EXCEPT ![t].pc = "load"]
  /\ UNCHANGED <<served_vars, appended>>

\* analyze_focus_from_b64.monitor.analyze_frame(frame): the attribute is
\* read, and the detectors and the score run on that monitor up to the
\* record calculate_focus_score is about to append
LoadMonitor(t) ==
  /\ threads[t].pc = "load"
  /\ \E r \in {analyze_frame(threads[t].frame,
                              [baseline |-> baseline_face_size, history |-> <<>>,
                               frame_count |-> frame_count,
                               dnn |-> use_dnn, only |-> dnn_only],
                              now, TRUE)} :
       /\ baseline_face_size' = r.baseline
       /\ frame_count' = r.frame_count
       /\ threads' = [threads EXCEPT ![t].pc = "append",
                                     ![t].self = created,
                                     ![t].record = r.record]
  /\ UNCHANGED <<served_vars, focus_history, appended, created>>

\* self.focus_history.append(record); a monitor that was replaced meanwhile
\* takes the record with it
AppendRecord(t) ==
  /\ threads[t].pc = "append"
  /\ IF Current(t)
       THEN /\ focus_history' = Append(focus_history, threads[t].record)
            /\ appended' = Append(appended, threads[t].record)
       ELSE UNCHANGED <<focus_history, appended>>
  /\ threads' = [threads EXCEPT ![t].pc = "filter"]
  /\ UNCHANGED <<served_vars, baseline_face_size, frame_count, created>>

\* [h for h in self.focus_history if h["timestamp"] > cutoff_time]: the list
\* is read and the kept records are collected in a new list
FilterHistory(t) ==
  /\ threads[t].pc = "filter"
  /\ threads' = [threads EXCEPT
                   ![t].pc = "assign",
                   ![t].kept = prune(IF Current(t) THEN focus_history
                                     ELSE <<threads[t].record>>, now)]
  /\ UNCHANGED <<served_vars, monitor_vars, created>>

\* self.focus_history = the new list; the request is answered
AssignHistory(t) ==
  /\ threads[t].pc = "assign"
  /\ IF Current(t)
       THEN focus_history' = threads[t].kept
       ELSE UNCHANGED focus_history
  /\ threads' = [threads EXCEPT ![t].pc = "done"]
  /\ UNCHANGED <<served_vars, baseline_face_size, frame_count, appended, created>>

ConcurrentNext ==
  \E t \in Threads :
    \/ CheckMonitor(t)
    \/ CreateMonitor(t)
    \/ LoadMonitor(t)
    \/ AppendRecord(t)
    \/ FilterHistory(t)
    \/ AssignHistory(t)

Concurrent == ConcurrentInit /\ [][ConcurrentNext]_vars

(***************************************************************************)
(* Properties of the classifier                                            *)
(***************************************************************************)

\* the call returned a result to its caller
Returned(call) == "raised" \notin DOMAIN call.result

WindowCall ==
  last_call.op = "analyze_distraction_from_window" /\ Returned(last_call)

ScreenCall ==
  last_call.op = "analyze_screen_from_b64" /\ Returned(last_call)

FrameCall == last_call.op = "analyze_frame"

NoFlags(r) ==
  ~r.should_alert /\ ~r.should_warn /\ ~r.should_block /\ ~r.should_close

\* C1: on both paths a text whose educational score is at least 2 gets the
\* educational verdict: not a distraction, distraction score 0, and on the
\* window path no action, severity none and no flag, whatever distraction
\* keywords it holds and whatever the active time is
C1_EducationalOutranks ==
  (WindowCall \/ ScreenCall) =>
    (last_call.signals.educational.education_score >= 2 =>
       LET r == last_call.result
       IN /\ r.content_type = "educational"
          /\ ~r.is_distraction
          /\ r.distraction_score = 0
          /\ WindowCall => /\ r.suggested_action = None
                           /\ r.severity = "none"
                           /\ NoFlags(r))

\* an educational window that also scores as a high distraction, watched for
\* more than two minutes
C1_Witness ==
  /\ WindowCall
  /\ last_call.signals.educational.education_score >= 2
  /\ last_call.signals.high.distraction_score >= 3
  /\ last_call.input.active_time > 120
  /\ last_call.result.content_type = "educational"

\* the first tier, in the order educational, high, medium, whose rule the
\* detector outputs satisfy
FirstTier(sig) ==
  IF sig.educational.education_score >= 2 THEN "educational"
  ELSE IF sig.high.distraction_score >= 3 THEN "high_distraction"
  ELSE IF Len(sig.medium.detected_keywords) >= 1 THEN "medium_distraction"
  ELSE "neutral"

\* C2: every classification reports one content tier, the first of
\* educational (score >= 2), high distraction (score >= 3) and medium
\* distraction (a medium keyword matched) whose rule holds, neutral when none
\* does; a text satisfying the high and the medium rule is never medium
C2_FirstTierWins ==
  (WindowCall \/ ScreenCall) =>
    last_call.result.content_type = FirstTier(last_call.signals)

\* a screen text that satisfies the high and the medium rule, not the
\* educational one
C2_Witness ==
  /\ ScreenCall
  /\ last_call.signals.educational.education_score < 2
  /\ last_call.signals.high.distraction_score >= 3
  /\ Len(last_call.signals.medium.detected_keywords) >= 1
  /\ last_call.result.content_type = "high_distraction"

FunnyViral(text) == Contains("funny", text) /\ Contains("viral", text)

HighVerdict(r) ==
  /\ r.content_type = "high_distraction"
  /\ r.is_distraction
  /\ r.severity = "critical"

ForceClose(r) ==
  /\ r.suggested_action = "force-close"
  /\ r.severity = "critical"
  /\ r.should_alert /\ r.should_block /\ r.should_close
  /\ ~r.should_warn

\* C3 as claimed: a window text containing "funny" and "viral" is a high
\* distraction of severity critical, and every high-distraction window
\* verdict is force-close with alert, block and close set and warn clear
C3_Original ==
  WindowCall =>
    /\ FunnyViral(window_text(last_call.input)) => HighVerdict(last_call.result)
    /\ last_call.result.content_type = "high_distraction" =>
         ForceClose(last_call.result)

\* C3: a window text containing "funny" and "viral" whose educational score
\* is below 2 is a high distraction of severity critical whatever medium
\* keywords it holds, and every high-distraction window verdict is
\* force-close, critical, with alert, block and close set and warn clear, at
\* every active time from 0 on
C3_HighIsTerminal ==
  WindowCall =>
    /\ (/\ FunnyViral(window_text(last_call.input))
        /\ last_call.signals.educational.education_score < 2)
         => HighVerdict(last_call.result)
    /\ last_call.result.content_type = "high_distraction" =>
         ForceClose(last_call.result)

\* "funny" and "viral" with a medium keyword, seen at active time 0
C3_Witness ==
  /\ WindowCall
  /\ FunnyViral(window_text(last_call.input))
  /\ Len(last_call.signals.medium.detected_keywords) >= 1
  /\ last_call.input.active_time = 0
  /\ last_call.result.suggested_action = "force-close"

MediumWindow ==
  WindowCall /\ last_call.result.content_type = "medium_distraction"

\* C4 as claimed: a medium window verdict suggests force-close above 120
\* seconds, close-tab above 30 and warning up to 30
C4_Original ==
  MediumWindow =>
    LET t == last_call.input.active_time
    IN last_call.result.suggested_action =
         IF t > 120 THEN "force-close"
         ELSE IF t > 30 THEN "close-tab" ELSE "warning"

\* C4: a medium window verdict suggests close-tab above 120 seconds of active
\* time, warning above 30 and up to 120, and monitor up to 30
C4_MediumActions ==
  MediumWindow =>
    LET t == last_call.input.active_time
    IN last_call.result.suggested_action =
         IF t > 120 THEN "close-tab"
         ELSE IF t > 30 THEN "warning" ELSE "monitor"

\* medium verdicts on both sides of the 30 second threshold
C4_Witness ==
  /\ MediumWindow
  /\ last_call.input.active_time = 31
  /\ last_call.result.suggested_action = "warning"

\* C5: in a medium window verdict should_block holds exactly above 30
\* seconds, should_close exactly above 120, should_warn exactly up to 30, and
\* the severity is high above 120, medium above 30, low otherwise
C5_MediumFlags ==
  MediumWindow =>
    LET t == last_call.input.active_time
        r == last_call.result
    IN /\ r.should_block <=> t > 30
       /\ r.should_close <=> t > 120
       /\ r.should_warn <=> t <= 30
       /\ r.severity = IF t > 120 THEN "high"
                       ELSE IF t > 30 THEN "medium" ELSE "low"

\* facebook.com seen for 150 seconds: blocked and closed
C5_Witness ==
  /\ MediumWindow
  /\ Contains("facebook.com", last_call.input.url)
  /\ last_call.input.active_time = 150
  /\ last_call.result.should_block
  /\ last_call.result.should_close

\* C6 as claimed: should_alert holds exactly when the window is a distraction
\* that has been active for more than 10 seconds
C6_Original ==
  WindowCall =>
    (last_call.result.should_alert <=>
       (last_call.result.is_distraction /\ last_call.input.active_time > 10))

\* C6: in every window result should_alert holds exactly when is_distraction
\* does, whatever the active time
C6_AlertIffDistraction ==
  WindowCall =>
    (last_call.result.should_alert <=> last_call.result.is_distraction)

\* a medium distraction alerted at active time 10
C6_Witness ==
  /\ MediumWindow
  /\ last_call.input.active_time = 10
  /\ last_call.result.is_distraction
  /\ last_call.result.should_alert

(***************************************************************************)
(* Properties of the focus monitor                                         *)
(***************************************************************************)

\* the state right after analyze_frame returned
AfterFrame == FrameCall /\ last_call.result.timestamp = now

\* C7: the focus score of every frame result lies in [0, 100] (tenths here),
\* and so does the distraction_score of every screen and window result, on
\* every branch
C7_ScoresInRange ==
  /\ FrameCall =>
       last_call.result.focus_score >= 0 /\ last_call.result.focus_score <= 1000
  /\ (WindowCall \/ ScreenCall) =>
       /\ last_call.result.distraction_score >= 0
       /\ last_call.result.distraction_score <= 100

\* a frame whose gaze and posture points are fewer than its phone penalty:
\* the lower clamp binds
C7_Witness ==
  /\ AfterFrame
  /\ LET c == focus_history[Len(focus_history)].components
     IN c.gaze + c.posture - c.phone_penalty < 0
  /\ last_call.result.focus_score = 0

\* the record was appended within the 300 seconds that end now
InWindow(r) == r.timestamp > now - 300 /\ r.timestamp <= now

Scores(records) == [i \in 1..Len(records) |-> records[i].score]

NotOlder(r) == now - r.timestamp <= 300

\* C9 as claimed: after a call the history holds exactly the records that are
\* not older than 300 seconds, the one of age exactly 300 included
C9_Original ==
  AfterFrame => focus_history = SelectSeq(appended, NotOlder)

Younger(r) == now - r.timestamp < 300

\* C9: after every call the history holds exactly the records younger than
\* 300 seconds: a record whose age is exactly 300 seconds at the call is
\* removed, like every older one, and every younger one is kept
C9_PruneAtCutoff ==
  AfterFrame => focus_history = SelectSeq(appended, Younger)

\* a call that removes a record of age exactly 300 and keeps one of age 150
C9_Witness ==
  /\ AfterFrame
  /\ \E i \in 1..Len(appended) : now - appended[i].timestamp = 300
  /\ \E i \in 1..Len(focus_history) : now - focus_history[i].timestamp = 150
  /\ \A i \in 1..Len(focus_history) : now - focus_history[i].timestamp # 300

\* the verdict of a call: its result without the timestamp, the frame
\* counter and the session average
Verdict(call) ==
  IF call.op = "analyze_frame"
    THEN [f \in DOMAIN call.result
                  \ {"timestamp", "frame_count", "session_average_focus"}
            |-> call.result[f]]
    ELSE call.result

\* C10: a call that repeats the call before it (the same window at the same
\* active time, the same screen text under the same model file and model
\* answer, the same frame on the same monitor) returns the same verdict
C10_Idempotent ==
  previous.op # None => Verdict(previous) = Verdict(last_call)

\* a frontal face analysed twice, the first call having set the baseline
C10_Witness ==
  /\ previous.op = "analyze_frame"
  /\ previous.baseline_before = Unset
  /\ last_call.baseline_before # Unset
  /\ last_call.result.face_detected
  /\ last_call.result.looking_at_screen

\* the detectors the monitor consults find no face in the frame of the last
\* call: no frontal face, and no profile where the profile cascade is asked
NoFaceFound ==
  /\ FrameCall
  /\ frontal_faces(last_call.input, use_dnn, dnn_only) = <<>>
  /\ dnn_only \/ last_call.input.profiles = <<>>

\* C11: a frame in which no detector finds a face is answered with
\* face_detected and looking_at_screen false, a gaze component of exactly 0,
\* and a phone confidence of exactly 0.2 whose only indicator is
\* no_face_detected
C11_NoFace ==
  NoFaceFound =>
    LET r == last_call.result
    IN /\ ~r.face_detected
       /\ ~r.gaze_analysis.face_detected
       /\ ~r.looking_at_screen
       /\ ~r.gaze_analysis.looking_at_screen
       /\ r.component_scores.gaze_score = 0
       /\ appended[Len(appended)].components.gaze = 0
       /\ r.phone_analysis.phone_confidence = 20
       /\ r.phone_analysis.indicators = <<"no_face_detected">>

\* an empty frame after the monitor was calibrated on a frontal face
C11_Witness ==
  /\ NoFaceFound
  /\ last_call.input = FrameEmpty
  /\ baseline_face_size # Unset
  /\ last_call.result.phone_analysis.phone_confidence = 20

\* the input of the call was malformed: a null title or url, or a payload
\* that is no image
Malformed(call) ==
  IF call.op = "analyze_distraction_from_window"
    THEN call.input.title = None \/ call.input.url = None
    ELSE call.op \in {"analyze_screen_from_b64", "analyze_focus_from_b64"}
         /\ "payload" \in DOMAIN call.input

\* the safe defaults of an error result: not a distraction with score 0 on
\* the classifier paths, no face and focus score 0 on the focus path
SafeDefaults(call) ==
  IF call.op = "analyze_focus_from_b64"
    THEN ~call.result.face_detected /\ call.result.focus_score = 0
    ELSE ~call.result.is_distraction /\ call.result.distraction_score = 0

\* C12: no entry point raises to its caller, and malformed input is answered
\* with a complete result that has an error field and safe defaults
C12_Original ==
  last_call.op # None =>
    /\ Returned(last_call)
    /\ Malformed(last_call) =>
         /\ "error" \in DOMAIN last_call.result
         /\ SafeDefaults(last_call)

KnownDistracting ==
  {"youtube.com", "facebook.com", "instagram.com", "twitter.com",
   "netflix.com", "reddit.com", "tiktok.com"}

\* C15: on the screen path a text whose extracted domain is exactly a
\* known-distracting domain is answered is_distraction = true whatever the
\* keywords and the model say, unless the educational tier won
C15_Original ==
  (ScreenCall /\ last_call.website \in KnownDistracting) =>
    (last_call.result.content_type # "educational" => last_call.result.is_distraction)

\* the frontal faces the consulted detectors find in the frame of the call
\* being served in this step
FrontalSeen ==
  IF last_call'.op = "analyze_frame"
    THEN frontal_faces(last_call'.input, use_dnn, dnn_only)
    ELSE <<>>

\* C16: the baseline face size is set by the first frontal face a monitor
\* observes, to the area of that face, and no later step changes it: not a
\* larger or smaller face, a profile, an empty frame, a detector error or an
\* undecodable payload; a frame without a frontal face never sets it
C16_BaselineSetOnce ==
  [][/\ baseline_face_size # Unset => baseline_face_size' = baseline_face_size
     /\ (baseline_face_size = Unset /\ baseline_face_size' # Unset) =>
          /\ FrontalSeen # <<>>
          /\ baseline_face_size' = <<Area(Largest(FrontalSeen))>>]_vars

\* a monitor calibrated on a 100 x 100 face has since analysed the 160 x 160
\* face of the second session and then a frame without a frontal face
C16_Witness ==
  /\ FrameCall
  /\ frame_count = 3
  /\ baseline_face_size = <<10000>>
  /\ frontal_faces(last_call.input, use_dnn, dnn_only) = <<>>
  /\ isolated["s2"].baseline = <<25600>>

\* the recommendations that qualify for the frame just analysed, in the
\* order gaze, posture, phone, read off the record appended for it and the
\* analyses returned with it
Qualifying ==
  LET components == appended[Len(appended)].components
      r == last_call.result
  IN (IF components.gaze < 25000 THEN <<"Look directly at your screen">> ELSE <<>>)
     \o (IF components.posture < 20000
           THEN r.posture_analysis.recommendations ELSE <<>>)
     \o (IF components.phone_penalty > 10000
           THEN <<r.phone_analysis.recommendation>> ELSE <<>>)

Acknowledgement == "Excellent focus! Keep it up!"

\* C17: the recommendations of every analysed frame are one to three
\* entries: the first three of the qualifying ones in the order gaze,
\* posture, phone, or the acknowledgement alone when the gaze component is at
\* least 25, the posture component at least 20 and the phone penalty at most
\* 10; the acknowledgement appears in no other case
C17_Recommendations ==
  FrameCall =>
    LET recs == last_call.result.recommendations
        q == Qualifying
    IN /\ Len(recs) \in 1..3
       /\ q # <<>> => recs = SubSeq(q, 1, Min(3, Len(q)))
       /\ q = <<>> => recs = <<Acknowledgement>>
       /\ (\E i \in 1..Len(recs) : recs[i] = Acknowledgement) <=> q = <<>>

\* four recommendations qualified and the phone advice, the last, was dropped
C17_Witness ==
  /\ FrameCall
  /\ Len(Qualifying) = 4
  /\ Qualifying[4] = "Put phone away and focus on screen"
  /\ Len(last_call.result.recommendations) = 3

\* nothing qualified and the acknowledgement was returned
C17_WitnessAcknowledged ==
  /\ FrameCall
  /\ Qualifying = <<>>
  /\ last_call.result.recommendations = <<Acknowledgement>>

\* the screen cascade reached its fallback step
FallbackCall == ScreenCall /\ screen_tier(last_call.signals) = "fallback"

\* what the fallback step answers when no model is available
NoModelAnswer(r) ==
  /\ ~r.is_distraction
  /\ r.distraction_score = 10
  /\ r.content_type = "neutral"
  /\ r.detection_method = "neutral"

\* C18: in the fallback step of the screen path a model whose prediction
\* throws gives the answer given when no model is available: no distraction,
\* score 10, content type and detection method neutral; a model that
\* answers gives a distraction exactly when it predicts the distraction
\* label, with score 70, and score 10 otherwise
C18_Fallback ==
  FallbackCall =>
    LET r == last_call.result
        predict == last_call.input.predict
    IN IF MODEL = None \/ predict = "throws"
         THEN NoModelAnswer(r)
         ELSE /\ r.is_distraction <=> predict = "Distraction"
              /\ r.distraction_score = IF predict = "Distraction" THEN 70 ELSE 10

\* a loaded model threw on a screenshot no tier claimed
C18_Witness ==
  /\ FallbackCall
  /\ MODEL = "loaded"
  /\ last_call.input.predict = "throws"
  /\ NoModelAnswer(last_call.result)

\* a loaded model predicted the distraction label
C18_WitnessAnswered ==
  /\ FallbackCall
  /\ MODEL = "loaded"
  /\ last_call.input.predict = "Distraction"
  /\ last_call.result.distraction_score = 70

\* the medium-distraction tier won the call
MediumWon ==
  /\ WindowCall \/ ScreenCall
  /\ last_call.result.content_type = "medium_distraction"

\* min(75, 15 x number of matched medium keywords)
PerKeyword(r) == Min(75, 15 * Len(r.detected_indicators))

\* the url of the window observation names YouTube
YouTubeWindow == WindowCall /\ Contains("youtube", Lower(last_call.input.url))

\* C19 as stated: whenever the medium-distraction tier wins, is_distraction
\* is true and the distraction score is 60 on the screen path and min(75, 15
\* x matched medium keywords) on the window path, YouTube windows included
C19_Original ==
  MediumWon =>
    /\ last_call.result.is_distraction
    /\ ScreenCall => last_call.result.distraction_score = 60
    /\ WindowCall => last_call.result.distraction_score = PerKeyword(last_call.result)

\* C19, amended: whenever the medium-distraction tier wins, is_distraction
\* is true and the distraction score is 60 on the screen path, 60 for a
\* window whose URL is a YouTube URL, and min(75, 15 x matched medium
\* keywords) for every other window
C19_MediumScore ==
  MediumWon =>
    /\ last_call.result.is_distraction
    /\ ScreenCall => last_call.result.distraction_score = 60
    /\ WindowCall =>
         last_call.result.distraction_score =
           IF YouTubeWindow THEN 60 ELSE PerKeyword(last_call.result)

\* a YouTube window with medium keywords scored 60, not 15 per keyword
C19_Witness ==
  /\ MediumWon
  /\ YouTubeWindow
  /\ last_call.result.distraction_score = 60
  /\ PerKeyword(last_call.result) # 60

\* another window scored 15 per keyword
C19_WitnessPerKeyword ==
  /\ MediumWon
  /\ WindowCall
  /\ ~YouTubeWindow
  /\ Len(last_call.result.detected_indicators) > 1
  /\ last_call.result.distraction_score < 60

TabCall ==
  last_call.op = "analyze_tab" /\ last_call.result # Rejected

\* the tab's url names YouTube
YouTubeTab == TabCall /\ Contains("youtube", Lower(last_call.input.url))

\* the tier that wins the window cascade on the detector outputs of the call
TabTier ==
  IF last_call.signals.educational.is_educational THEN "educational"
  ELSE IF last_call.signals.high.is_high_distraction THEN "high_distraction"
  ELSE "other"

\* C20: /api/analyze-tab returns every tab for which the high-distraction
\* tier wins with should_block true, and every tab for which the educational
\* tier wins with is_distraction, should_warn and should_block false, YouTube
\* tabs included
C20_TabActions ==
  TabCall =>
    LET r == last_call.result
    IN /\ TabTier = "high_distraction" => r.should_block
       /\ TabTier = "educational" =>
            ~r.is_distraction /\ ~r.should_warn /\ ~r.should_block

\* a YouTube tab of the high-distraction tier was returned as blocked, and
\* the response cached
C20_Witness ==
  /\ YouTubeTab
  /\ TabTier = "high_distraction"
  /\ last_call.result.should_block
  /\ last_call.result.distraction_score <= 90
  /\ LAST_TAB_RESULT.result = last_call.result

\* a YouTube tab of the educational tier was let through and remembered
C20_WitnessEducational ==
  /\ YouTubeTab
  /\ TabTier = "educational"
  /\ ~last_call.result.should_block
  /\ LAST_EDU_URL = last_call.input.url

\* the tab of the call is the test page of this url: the url alone under the
\* title the test endpoint gives it
TestPage(url) ==
  /\ TabCall
  /\ last_call.input = [title |-> test_title(url), url |-> url]

\* C21 as stated: a tab on https://youtube.com or https://facebook.com with
\* a neutral title, analysed at 30 seconds, is a distraction to be blocked;
\* a tab on https://stackoverflow.com or https://github.com is no distraction
\* and is allowed.  The test endpoint reports the same verdicts
C21_Original ==
  /\ (TestPage("https://youtube.com") \/ TestPage("https://facebook.com")) =>
       last_call.result.is_distraction /\ last_call.result.should_block
  /\ (TestPage("https://stackoverflow.com") \/ TestPage("https://github.com")) =>
       /\ ~last_call.result.is_distraction
       /\ ~last_call.result.should_block
       /\ ~last_call.result.should_warn
  /\ last_call.op = "test_extension_integration" =>
       \A i \in 1..Len(last_call.result.test_results) :
         LET t == last_call.result.test_results[i]
         IN t.is_distraction <=> t.expected = "should_block"

\* the posture indicators that can fail: the four of the body branch and
\* the two of the face-only branch
PostureChecks ==
  {"head_body_aligned", "head_positioned_well", "facing_camera",
   "upright_posture", "face_centered", "good_face_height"}

\* the checks computed for the frame just analysed that came out false
FailedChecks ==
  LET indicators == last_call.result.posture_analysis.indicators
  IN {k \in PostureChecks \cap DOMAIN indicators : ~indicators[k]}

\* C22 as stated: the posture recommendations are the single entry "Good
\* posture!" if and only if no posture indicator computed for the frame
\* failed; when any indicator is false the list holds no acknowledgement
C22_Original ==
  FrameCall =>
    LET recs == last_call.result.posture_analysis.recommendations
    IN /\ recs = <<"Good posture!">> <=> FailedChecks = {}
       /\ FailedChecks # {} =>
            \A i \in 1..Len(recs) : recs[i] # "Good posture!"

\* C23: the gaze component is 0, 10 or 45, the posture component is at most
\* 35, so the focus score never exceeds 80: the clamp at 100 never binds and
\* the level excellent is never returned
C23_ScoreCeiling ==
  /\ \A i \in 1..Len(appended) :
       LET c == appended[i].components
       IN /\ c.gaze \in {0, 10000, 45000}
          /\ c.posture <= 35000
          /\ c.gaze + c.posture - c.phone_penalty <= 80000
          /\ appended[i].score <= 80000
  /\ FrameCall =>
       /\ last_call.result.focus_score <= 800
       /\ last_call.result.focus_level # "excellent"
       /\ (last_call.result.component_scores.gaze_score = 450
            <=> last_call.result.looking_at_screen)

\* a user looking at the screen in perfect posture scored exactly 80
C23_Witness ==
  /\ FrameCall
  /\ last_call.result.looking_at_screen
  /\ last_call.result.component_scores.gaze_score = 450
  /\ last_call.result.component_scores.posture_score = 350
  /\ last_call.result.focus_score = 800
  /\ last_call.result.focus_level = "good"

\* C24: in every result of analyze_distraction_from_window should_close
\* implies should_block, should_block implies is_distraction, should_warn and
\* should_block are never both true, and a result that is not a distraction
\* suggests no action and raises no flag
C24_FlagsConsistent ==
  WindowCall =>
    LET r == last_call.result
    IN /\ r.should_close => r.should_block
       /\ r.should_block => r.is_distraction
       /\ ~(r.should_warn /\ r.should_block)
       /\ ~r.is_distraction => r.suggested_action = None /\ NoFlags(r)

\* a medium distraction active for more than two minutes is blocked and
\* closed without a warning
C24_Witness ==
  /\ WindowCall
  /\ last_call.result.content_type = "medium_distraction"
  /\ last_call.result.is_distraction
  /\ last_call.result.should_block
  /\ last_call.result.should_close
  /\ ~last_call.result.should_warn

\* a neutral YouTube window raises no flag and suggests nothing
C24_WitnessNeutral ==
  /\ WindowCall
  /\ last_call.signals.is_youtube
  /\ ~last_call.result.is_distraction
  /\ last_call.result.suggested_action = None
  /\ NoFlags(last_call.result)

\* C25: no analyze_tab response requests tab closure: should_close is false,
\* recommended_action is never close_tab, warning_level is never high, and the
\* suggested_action carried in the result is neither close-tab nor force-close
C25_Original ==
  TabCall =>
    LET r == last_call.result
    IN /\ ~r.should_close
       /\ r.recommended_action # "close_tab"
       /\ r.warning_level # "high"
       /\ r.suggested_action \notin {"close-tab", "force-close"}
       /\ LAST_TAB_RESULT.result = r

\* C26: after every calculate_focus_score call focus_history is non-empty and
\* its last entry is the record of that call, so the session average is
\* computed from the history; the retained timestamps are in non-decreasing
\* order
C26_HistoryKeepsLast ==
  FrameCall =>
    /\ focus_history # <<>>
    /\ appended # <<>>
    /\ focus_history[Len(focus_history)] = appended[Len(appended)]
    /\ focus_history[Len(focus_history)].timestamp = last_call.result.timestamp
    /\ \A i, j \in 1..Len(focus_history) :
         i < j => focus_history[i].timestamp <= focus_history[j].timestamp
    /\ \E r \in {prune(focus_history, last_call.result.timestamp)} :
         /\ r = focus_history
         /\ \E up \in BOOLEAN :
              last_call.result.session_average_focus
                = session_average(r, focus_history[Len(r)].score, up)

\* a call whose prune dropped older records and kept the new one behind an
\* earlier one
C26_Witness ==
  /\ FrameCall
  /\ Len(focus_history) >= 2
  /\ Len(appended) > Len(focus_history)
  /\ focus_history[Len(focus_history)] = appended[Len(appended)]
  /\ focus_history[1].timestamp < focus_history[Len(focus_history)].timestamp

\* a call whose prune dropped every older record and kept only its own
C26_WitnessAlone ==
  /\ FrameCall
  /\ Len(appended) >= 2
  /\ focus_history = <<appended[Len(appended)]>>

\* the call just served was POST /api/last-educational-url
SetUrlCall == last_call.op = "set_last_educational_url"

Scored(r) ==
  [content_type |-> r.content_type, is_distraction |-> r.is_distraction,
   distraction_score |-> r.distraction_score]

\* the tiers and scores the window path returns over all window observations
WindowScores ==
  {Scored(window_verdict(WindowSignals[w], t)) : w \in Windows, t \in ActiveTimes}

\* the tiers and scores the screen path returns over all screen texts and
\* model answers
ScreenScores ==
  {Scored(screen_verdict(ScreenSignals[t], label)) :
     t \in ScreenTexts, label \in {None, "Task", "Distraction"}}

\* the rank of a verdict in the order educational, neutral and not a
\* distraction, medium, high; 0 for a neutral verdict the model called a
\* distraction, which the order does not speak of
TierRank(r) ==
  IF r.content_type = "educational" THEN 1
  ELSE IF r.content_type = "neutral" THEN (IF r.is_distraction THEN 0 ELSE 2)
  ELSE IF r.content_type = "medium_distraction" THEN 3
  ELSE 4

\* r is scored in tier order against every verdict of scores
TierOrdered(r, scores) ==
  \A v \in scores :
    (TierRank(v) > 0 /\ TierRank(r) > 0 /\ TierRank(v) < TierRank(r))
      => v.distraction_score < r.distraction_score

PostureFrames ==
  {Frame(<<>>, face, <<>>, <<>>, bodies) :
     face \in {<<>>, << <<270, 190, 100, 100>> >>, << <<170, 330, 100, 100>> >>},
     bodies \in {<<>>} \cup
       {<< <<bx, by, bw, bh>> >> : bx \in {20, 220}, by \in {0, 100, 200},
                                   bw \in {100, 200, 300}, bh \in {100, 260, 400}}}

\* what analyze_posture returns when OpenCV raises inside it
posture_error ==
  [posture_score |-> 300, posture_level |-> "unknown",
   recommendations |-> <<"Unable to analyze posture">>]

PostureInit ==
  /\ session = "posture"
  /\ window = NoWindow
  /\ MODEL = None
  /\ use_dnn = FALSE
  /\ dnn_only = FALSE
  /\ focus_history = <<>>
  /\ baseline_face_size = Unset
  /\ frame_count = 0
  /\ now = 0
  /\ appended = <<>>
  /\ isolated = [s \in Sessions |-> FreshMonitor]
  /\ last_call = NoCall
  /\ previous = NoCall
  /\ created = 1
  /\ threads = [t \in Threads |-> Idle]
  /\ LAST_TAB_RESULT = NoTabResult
  /\ LAST_EDU_URL = DefaultEduUrl

\* analyze_posture(frame, face_data) of a fresh monitor, with the face_data
\* detect_face_and_eyes found in the frame; the body cascade runs or raises
AnalyzePosture ==
  /\ session = "posture"
  /\ \E frame \in PostureFrames, raises \in BOOLEAN :
       \E gaze \in {detect_face_and_eyes(frame, Unset, FALSE, FALSE)} :
         \E call \in {[op |-> "analyze_posture",
                         input |-> frame,
                         raised |-> raises,
                         result |-> IF raises THEN posture_error
                                    ELSE analyze_posture(frame, gaze.data)]} :
           /\ last_call' = call
           /\ previous' = Repeat(call)
  /\ UNCHANGED <<session, window, MODEL, monitor_vars, created, threads,
                 extension_vars>>

PostureSpec == PostureInit /\ [][AnalyzePosture]_vars

\* the call just served was analyze_posture
PostureCall == last_call.op = "analyze_posture"

\* the posture analysis just made, on its own or within analyze_frame
Posture ==
  IF PostureCall THEN last_call.result ELSE last_call.result.posture_analysis

\* the posture analysis was made with both a body and a face
BodyAndFace == Posture.indicators.body_detected

\* the posture analysis was made with neither
Neither == "face_detected" \in DOMAIN Posture.indicators

\* C29: analyze_posture only produces the scores 25, 43.75, 62.5, 81.25 and
\* 100 with body and face, 40 or 25 with a face only, 50 with neither and 30
\* on an internal error; the level good is never returned, a frame with
\* neither body nor face is rated fair, and the error path returns the level
\* unknown
C29_Original ==
  (PostureCall \/ FrameCall) =>
    IF "indicators" \notin DOMAIN Posture
      THEN 10 * Posture.posture_score = 3000 /\ Posture.posture_level = "unknown"
      ELSE /\ 10 * Posture.posture_score
                \in (IF BodyAndFace THEN {2500, 4375, 6250, 8125, 10000}
                     ELSE IF Neither THEN {5000}
                     ELSE {4000, 2500})
           /\ Posture.posture_level \in {"excellent", "fair", "poor"}
           /\ Neither => Posture.posture_level = "fair"

\* C29, amended: the scores analyze_posture returns are rounded to one
\* decimal, half to even: 25.0, 43.8, 62.5, 81.2 and 100.0 with body and
\* face, 40 or 25 with a face only, 50 with neither and 30.0 on an internal
\* error; the level, taken from the score before rounding, is never good, a
\* frame with neither body nor face is rated fair, and the error path
\* returns the level unknown
C29_PostureScores ==
  (PostureCall \/ FrameCall) =>
    IF "indicators" \notin DOMAIN Posture
      THEN Posture.posture_score = 300 /\ Posture.posture_level = "unknown"
      ELSE /\ Posture.posture_score
                \in (IF BodyAndFace THEN {250, 438, 625, 812, 1000}
                     ELSE IF Neither THEN {500}
                     ELSE {400, 250})
           /\ Posture.posture_level
                = (IF Posture.posture_score >= 800 THEN "excellent"
                   ELSE IF Posture.posture_score >= 500 THEN "fair" ELSE "poor")
           /\ Neither => Posture.posture_level = "fair"

\* a frame with body and face in which three of the four posture factors
\* hold: 81.25 is returned as 81.2 and rated excellent
C29_Witness ==
  /\ PostureCall
  /\ "indicators" \in DOMAIN Posture
  /\ BodyAndFace
  /\ Posture.posture_score = 812
  /\ Posture.posture_level = "excellent"

\* a frame with a body and no face is analysed as one with neither
C29_WitnessNeither ==
  /\ PostureCall
  /\ "indicators" \in DOMAIN Posture
  /\ Neither
  /\ Len(last_call.input.bodies) > 0
  /\ Posture.posture_score = 500
  /\ Posture.posture_level = "fair"

\* OpenCV raised inside analyze_posture
C29_WitnessError ==
  /\ PostureCall
  /\ last_call.raised
  /\ Posture.posture_level = "unknown"

\* the call just served was POST /api/dev/simulate-block
SimulateCall == last_call.op = "simulate_block"

\* the call just served was GET /api/last-tab
LastTabCall == last_call.op = "get_last_tab"

\* the call just served was a POST /api/analyze-tab that failed
FailedTabCall == last_call.op = "analyze_tab" /\ ~TabCall

\* C30: GET /api/last-tab returns the response of the most recently completed
\* successful analyze-tab or simulate-block call, initially the placeholder;
\* an analyze-tab call that fails returns its error response and leaves the
\* cached value unchanged, and no other endpoint changes it
C30_Original ==
  /\ LAST_TAB_RESULT = NoTabResult
  /\ [][
        /\ TabCall' => LAST_TAB_RESULT' = last_call'.response
        /\ SimulateCall' => LAST_TAB_RESULT' = last_call'.result
        /\ FailedTabCall' =>
             /\ last_call'.response = Rejected
             /\ LAST_TAB_RESULT' = LAST_TAB_RESULT
        /\ LastTabCall' => last_call'.result = LAST_TAB_RESULT
        /\ ~(TabCall' \/ SimulateCall') => LAST_TAB_RESULT' = LAST_TAB_RESULT
     ]_vars

\* C30, amended: GET /api/last-tab returns the response of the last
\* successful analyze-tab call or the result member of the response of the
\* last simulate-block call, whichever came later, initially the
\* placeholder; an analyze-tab call that fails leaves the cached value
\* unchanged, and no other endpoint changes it
C30_LastTab ==
  /\ LAST_TAB_RESULT = NoTabResult
  /\ [][
        /\ TabCall' => LAST_TAB_RESULT' = last_call'.response
        /\ SimulateCall' =>
             /\ LAST_TAB_RESULT' = last_call'.result.result
             /\ LAST_TAB_RESULT' # last_call'.result
        /\ FailedTabCall' =>
             /\ last_call'.response = Rejected
             /\ LAST_TAB_RESULT' = LAST_TAB_RESULT
        /\ LastTabCall' => last_call'.result = LAST_TAB_RESULT
        /\ ~(TabCall' \/ SimulateCall') => LAST_TAB_RESULT' = LAST_TAB_RESULT
     ]_vars

\* GET /api/last-tab returned what a simulate-block call had stored
C30_Witness ==
  /\ LastTabCall
  /\ last_call.result = simulate_block("reddit.com").LAST_TAB_RESULT
  /\ last_call.result # simulate_block("reddit.com").response

\* an analyze-tab call was turned down and the cached analysis stayed
C30_WitnessFailed ==
  /\ FailedTabCall
  /\ LAST_TAB_RESULT.success
  /\ LAST_TAB_RESULT.result.content_type = "high_distraction"

\* GET /api/last-tab returned the placeholder
C30_WitnessPlaceholder ==
  /\ LastTabCall
  /\ last_call.result = NoTabResult
  /\ ~last_call.result.success

====
